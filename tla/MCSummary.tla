------------------------------ MODULE MCSummary ------------------------------
(***************************************************************************)
(* Inputs for Summary: an event of one or two matches of four teams, up to *)
(* MaxReports reports in any order, and schemas that use every kind of     *)
(* field, a reference to a later field and an invalid field.               *)
(***************************************************************************)
EXTENDS Summary

CONSTANTS MaxReports, Ours, Theirs, Shared

OneSharing == {Shared}

Num(n) == <<"num", n * Unit>>

Field(name) == [name |-> name, report |-> None, tba |-> None, sum |-> <<>>, anyOf |-> <<>>]
FromReport(name, ref) == [Field(name) EXCEPT !.report = ref]
FromTBA(name, stem, positional) ==
  [Field(name) EXCEPT !.tba = [stem |-> stem, positional |-> positional, parses |-> TRUE]]
SumOf(name, refs) == [Field(name) EXCEPT !.sum = refs]
AnyOf(name, refs) == [Field(name) EXCEPT !.anyOf = refs]
Is(name, value) == [name |-> name, equals |-> value]

\* The schema of a game, with computed stats of computed stats.
Game == <<
  FromReport("cargo placed", "cargo"),
  FromReport("hatches", "hatches"),
  FromTBA("endgame", "robot", TRUE),
  FromTBA("won", "won", FALSE),
  SumOf("pieces", <<"cargo placed", "hatches">>),
  AnyOf("climbed", <<Is("endgame", <<"str", "high">>), Is("endgame", <<"str", "low">>)>>),
  AnyOf("active", <<Is("cargo placed", Num(2)), Is("climbed", <<"bool", TRUE>>)>>) >>

\* A sum before what it sums, and sums of a sum and of a TBA field.
Shuffled == <<
  SumOf("early", <<"cargo">>),
  FromReport("cargo", "cargo"),
  FromTBA("won", "won", FALSE),
  SumOf("score", <<"cargo", "won">>),
  SumOf("twice", <<"score", "score">>),
  AnyOf("never", <<Is("unknown", Num(1))>>) >>

Broken == << FromReport("cargo", "cargo"), Field("nothing") >>
Unparsable == << [FromTBA("endgame", "robot", TRUE) EXCEPT !.tba.parses = FALSE] >>

Entry(name, n) == [name |-> name, value |-> Num(n)]
Null(name) == [name |-> name, value |-> <<"other", None>>]

\* Scouts of three realms and one of a realm that is gone; one of them leaves a field
\* out, one sends it twice, one sends null.
ReportPool ==
  { [team |-> "t1", match |-> "m1", realm |-> Ours, data |-> <<Entry("cargo", 1), Entry("hatches", 1)>>],
    [team |-> "t1", match |-> "m1", realm |-> Shared, data |-> <<Entry("cargo", 2)>>],
    [team |-> "t1", match |-> "m1", realm |-> Theirs, data |-> <<Entry("cargo", -1), Entry("cargo", 5)>>],
    [team |-> "t1", match |-> "m2", realm |-> Shared, data |-> <<Entry("hatches", 3), Entry("cargo", -2)>>],
    [team |-> "t4", match |-> "m2", realm |-> Ours, data |-> <<Entry("hatches", 1), Null("hatches")>>],
    [team |-> "t1", match |-> "m1", realm |-> None, data |-> <<Entry("cargo", 9)>>],
    [team |-> "t5", match |-> "m1", realm |-> Ours, data |-> <<Entry("cargo", 7)>>] }

NoBreakdown == <<>>
High == <<"robot", 1>> :> <<"str", "high">> @@ <<"robot", 2>> :> Num(4) @@ <<"won", 0>> :> <<"bool", TRUE>>
Low == <<"robot", 1>> :> <<"bool", FALSE>> @@ <<"robot", 2>> :> <<"str", "low">> @@ <<"won", 0>> :> Num(3)

Match(key, red, blue, redBreakdown, blueBreakdown) ==
  [key |-> key, red |-> red, blue |-> blue,
   redBreakdown |-> redBreakdown, blueBreakdown |-> blueBreakdown]

First == {Match("m1", <<"t1", "t2">>, <<"t3", "t4">>, b[1], b[2]) :
            b \in {<<NoBreakdown, NoBreakdown>>, <<High, Low>>, <<Low, High>>}}
Second == {Match("m2", r[1], r[2], b[1], b[2]) :
             r \in { << <<"t3", "t4">>, <<"t2", "t1">> >>, << <<"t1", "t4">>, <<"t2">> >> },
             b \in {<<NoBreakdown, NoBreakdown>>, <<Low, High>>}}
NoReds == Match("m2", <<>>, <<"t1">>, NoBreakdown, NoBreakdown)

Schedules == {<<m>> : m \in First} \cup {<<m, n>> : m \in First, n \in Second \cup {NoReds}}

Event(realm, schema) == [realm |-> realm, schema |-> schema]

AllInputs ==
  [event : {Event(None, Game), Event(None, Shuffled)}, viewer : {Ours, None},
   matches : Schedules, reports : BoundedSeq(ReportPool, MaxReports)]
  \cup
  [event : {Event(Theirs, Game), Event(Ours, None), Event(Ours, Broken),
            Event(Ours, Unparsable)}, viewer : {Ours},
   matches : Schedules, reports : BoundedSeq(ReportPool, 1)]

\* The theorems about the stats are not about nothing: these inputs meet what they ask for.
ASSUME InputsAreWellFormed == \A in \in AllInputs : WellFormed(in) /\ Exact(in)
=============================================================================
