------------------------------- MODULE Summary -------------------------------
(***************************************************************************)
(* The statistics of an event: how the rows that the store returns become  *)
(* the maximum and the average of every stat of a schema for every team    *)
(* (summary/summary.go and server/stats.go).                               *)
(*                                                                         *)
(* The algorithm is pure.  Its input is what the handlers' queries return, *)
(* one after the other and with no common snapshot, so the rows need not   *)
(* fit together.  A state is an input and the answer to at most one        *)
(* request.  Numbers are integers scaled by Unit, chosen so that every     *)
(* division in a run is exact: the rounding of float64 is left out.        *)
(*                                                                         *)
(* A value is <<"num", n>>, <<"bool", b>> or <<"str", s>>; a breakdown is  *)
(* a function from keys <<stem, position>> to values, with position 0      *)
(* where the key has none.                                                 *)
(***************************************************************************)
EXTENDS Integers, SequencesExt

CONSTANTS
  Inputs,     \* what the store may return: event, matches, reports, viewer
  Sharing,    \* the realms that share their reports
  Unit,       \* the number 1.0
  None

ASSUME UnitAssumption == Unit \in Nat \ {0}

VARIABLES
  input,      \* the rows, and the realm that asks
  answer      \* None, or the answer to the one request of this behaviour

vars == <<input, answer>>

-----------------------------------------------------------------------------
(* What the rows look like: the columns of the tables, and JSON.          *)

\* "other": null, an array or an object, whose content nothing looks at.
Values == ({"num"} \X Int) \cup ({"bool"} \X BOOLEAN) \cup ({"str"} \X STRING) \cup
          ({"other"} \X {None})

Fields == [name : STRING, report : {None} \cup STRING,
           tba : {None} \cup [stem : STRING, positional : BOOLEAN, parses : BOOLEAN],
           sum : Seq(STRING), anyOf : Seq([name : STRING, equals : Values])]

IsBreakdown(b) == b \in [DOMAIN b -> Values]

IsMatchRow(m) ==
  /\ m.red \in Seq(STRING) /\ IsBreakdown(m.redBreakdown)
  /\ m.blue \in Seq(STRING) /\ IsBreakdown(m.blueBreakdown)

IsReportRow(r) == r.data \in Seq([name : STRING, value : Values])

ASSUME InputsAssumption ==
  \A in \in Inputs :
    /\ DOMAIN in = {"event", "viewer", "matches", "reports"}
    /\ in.matches \in Seq(ToSet(in.matches)) /\ \A m \in ToSet(in.matches) : IsMatchRow(m)
    /\ in.reports \in Seq(ToSet(in.reports)) /\ \A r \in ToSet(in.reports) : IsReportRow(r)
    /\ in.event.schema \in {None} \cup Seq(Fields)

-----------------------------------------------------------------------------
(* Arithmetic on values.  true counts 1, and what is no number 0.          *)

Number(value) ==
  CASE value[1] = "num" -> value[2]
    [] value[1] = "bool" -> IF value[2] THEN Unit ELSE 0
    [] OTHER -> 0

Equal(a, b) ==
  IF a[1] = "str" /\ b[1] = "str" THEN a[2] = b[2] ELSE Number(a) = Number(b)

Total(numbers) == FoldLeft(LAMBDA x, y : x + y, 0, numbers)

\* As in the code, the fold starts from 0.
Greatest(numbers) == FoldLeft(LAMBDA x, y : IF y > x THEN y ELSE x, 0, numbers)

Each(seq, Op(_)) == [i \in DOMAIN seq |-> Op(seq[i])]

\* The elements of seq that are in kept, in their order.  (TLAPS does not know what
\* SelectSeq is, nor @@ and :>, so this module uses neither.)
Among(kept, seq) ==
  FoldLeft(LAMBDA found, x : IF x \in kept THEN Append(found, x) ELSE found, <<>>, seq)

\* A group holds what one report says of a stat.
SumValues(group) == Total(Each(group, Number))

Mean(groups) == Total(Each(groups, SumValues)) \div Len(groups)

-----------------------------------------------------------------------------
(* The records of one match: stat names mapped to sequences of groups.    *)

RecordsOf(records, name) ==
  IF name \in DOMAIN records THEN records[name] ELSE <<>>

Record(records, name, groups) ==
  [n \in DOMAIN records \cup {name} |->
     IF n = name THEN RecordsOf(records, name) \o groups ELSE records[n]]

RecordValue(records, name, value) == Record(records, name, << <<value>> >>)

\* One group for every report, empty where the report lacks the field.
SummarizeReportReference(field, match, records) ==
  LET Group(report) ==
        Each(Among({entry \in ToSet(report) : entry.name = field.report}, report),
             LAMBDA entry : entry.value)
  IN IF match.reports = <<>> THEN records
     ELSE Record(records, field.name, Each(match.reports, Group))

BreakdownKey(tba, position) ==
  <<tba.stem, IF tba.positional THEN position ELSE 0>>

SummarizeTBAReference(field, match, records) ==
  LET key == BreakdownKey(field.tba, match.position)
  IN IF key \in DOMAIN match.breakdown
     THEN RecordValue(records, field.name, match.breakdown[key])
     ELSE records

\* Mutant: adds the reports up instead of averaging them.
SummarizeSumOfReports(field, records) ==
  LET SumOf(name) == Total(Each(RecordsOf(records, name), SumValues))
  IN IF \E name \in ToSet(field.sum) : RecordsOf(records, name) = <<>>
     THEN records
     ELSE RecordValue(records, field.name, <<"num", Total(Each(field.sum, SumOf))>>)

\* Mutant: a stat without a record counts 0.
SummarizeSumAnyway(field, records) ==
  LET MeanOf(name) == IF RecordsOf(records, name) = <<>> THEN 0
                                                         ELSE Mean(RecordsOf(records, name))
  IN RecordValue(records, field.name, <<"num", Total(Each(field.sum, MeanOf))>>)

\* Nothing when a stat it refers to has no record (yet).
SummarizeSum(field, records) ==
  LET MeanOf(name) == Mean(RecordsOf(records, name))
  IN IF \E name \in ToSet(field.sum) : RecordsOf(records, name) = <<>>
     THEN records
     ELSE RecordValue(records, field.name, <<"num", Total(Each(field.sum, MeanOf))>>)

\* Mutant: looks at the first report only.
SummarizeAnyOfFirst(field, records) ==
  LET Groups(ref) == RecordsOf(records, ref.name)
      Found(ref) == Groups(ref) # <<>> /\
                      \E value \in ToSet(Groups(ref)[1]) : Equal(value, ref.equals)
      first == SelectInSeq(field.anyOf, LAMBDA ref : Groups(ref) = <<>> \/ Found(ref))
  IN CASE first = 0 -> RecordValue(records, field.name, <<"num", 0>>)
       [] first # 0 /\ Found(field.anyOf[first]) ->
            RecordValue(records, field.name, <<"num", Unit>>)
       [] OTHER -> records

\* The first reference that has no record, or has the value, decides.
SummarizeAnyOf(field, records) ==
  LET Groups(ref) == RecordsOf(records, ref.name)
      Found(ref) == \E group \in ToSet(Groups(ref)) :
                      \E value \in ToSet(group) : Equal(value, ref.equals)
      first == SelectInSeq(field.anyOf, LAMBDA ref : Groups(ref) = <<>> \/ Found(ref))
  IN CASE first = 0 -> RecordValue(records, field.name, <<"num", 0>>)
       [] first # 0 /\ Found(field.anyOf[first]) ->
            RecordValue(records, field.name, <<"num", Unit>>)
       [] OTHER -> records

SummarizeField(field, match, records) ==
  IF field.report # None THEN SummarizeReportReference(field, match, records)
  ELSE IF field.tba # None THEN SummarizeTBAReference(field, match, records)
  ELSE IF field.sum # <<>> THEN SummarizeSum(field, records)
  ELSE SummarizeAnyOf(field, records)

SummarizeMatch(schema, match) ==
  FoldLeft(LAMBDA records, field : SummarizeField(field, match, records), <<>>, schema)

\* Describes nothing, or has a template that does not parse.
Invalid(field) ==
  /\ field.report = None
  /\ IF field.tba # None THEN ~field.tba.parses
                         ELSE field.sum = <<>> /\ field.anyOf = <<>>

\* Mutant: averages over reports, not matches.
SummarizeReports(schema, matches) ==
  LET recs == Each(matches, LAMBDA match : SummarizeMatch(schema, match))
      Groups(name) == FlattenSeq(Each(Among({r \in ToSet(recs) : name \in DOMAIN r}, recs),
                                      LAMBDA r : r[name]))
  IN [name \in UNION {DOMAIN r : r \in ToSet(recs)} |->
        [max |-> Greatest(Each(Groups(name), SumValues)), average |-> Mean(Groups(name))]]

\* What the matches come to, one by one, in the stats that they record.
Means(records, name) ==
  Each(Among({r \in ToSet(records) : name \in DOMAIN r}, records), LAMBDA r : Mean(r[name]))

\* A match counts once, whatever the number of its reports.
SummarizeTeam(schema, matches) ==
  LET records == Each(matches, LAMBDA match : SummarizeMatch(schema, match))
      Average(means) == Total(means) \div Len(means)
  IN [name \in UNION {DOMAIN r : r \in ToSet(records)} |->
        [max |-> Greatest(Means(records, name)), average |-> Average(Means(records, name))]]

-----------------------------------------------------------------------------
(* From rows to the matches of a team.                                    *)

Seats(match) == match.red \o match.blue

\* Mutant: forgets to start again at the blue alliance.
PositionInRow(match, seat) == seat

RobotPosition(match, seat) == ((seat - 1) % Len(match.red)) + 1

Breakdown(match, seat) ==
  IF seat > Len(match.red) THEN match.blueBreakdown ELSE match.redBreakdown

ReportsOn(reports, team, key) ==
  Each(Among({r \in ToSet(reports) : r.team = team /\ r.match = key}, reports),
       LAMBDA r : r.data)

\* What the team did in a match: once for each of its seats, of which there is one.
MatchOf(match, reports, team) ==
  Each(Among({seat \in DOMAIN Seats(match) : Seats(match)[seat] = team},
             [seat \in DOMAIN Seats(match) |-> seat]),
       LAMBDA seat : [position |-> RobotPosition(match, seat),
                      breakdown |-> Breakdown(match, seat),
                      reports |-> ReportsOn(reports, team, match.key)])

SelectTeamMatches(matches, reports, team) ==
  FlattenSeq(Each(matches, LAMBDA match : MatchOf(match, reports, team)))

-----------------------------------------------------------------------------
(* The two handlers.  An answer is to <<>>, the whole event, or to the     *)
(* <<match, team>> that was asked for.                                     *)

\* The store's filters, by the realm of the user who asks (None: nobody).  A report
\* without a realm is shown to none: the query joins it with its realm.
VisibleEvent(in) == in.event.realm \in {None, in.viewer}

VisibleReports(in) ==
  Among({r \in ToSet(in.reports) : r.realm \in (Sharing \cup {in.viewer}) \ {None}}, in.reports)

Teams(matches) == UNION {ToSet(Seats(match)) : match \in ToSet(matches)}

\* An empty red alliance makes the position a division by zero: the handler
\* panics and the connection ends without a response.
Panics(matches) == \E m \in ToSet(matches) : m.red = <<>> /\ m.blue # <<>>

Respond(to, status, stats) == [to |-> to, status |-> status, stats |-> stats]

\* What both handlers answer once they have their matches and reports; teams
\* are the teams asked for.
Answer(to, schema, matches, reports, teams) ==
  IF Panics(matches) THEN Respond(to, "aborted", <<>>)
  ELSE IF (\E field \in ToSet(schema) : Invalid(field)) /\ teams \cap Teams(matches) # {}
       THEN Respond(to, "500", <<>>)
       ELSE Respond(to, "200",
              [team \in teams |->
                 SummarizeTeam(schema, SelectTeamMatches(matches, reports, team))])

MatchInfo(in, key) == Among({m \in ToSet(in.matches) : m.key = key}, in.matches)

EventAnswer(in) ==
  IF ~VisibleEvent(in) THEN Respond(<<>>, "404", <<>>)
  ELSE IF in.event.schema = None THEN Respond(<<>>, "400", <<>>)
  ELSE Answer(<<>>, in.event.schema, in.matches, VisibleReports(in), Teams(in.matches))

MatchAnswer(in, key, team) ==
  LET match == MatchInfo(in, key)
      to == <<key, team>>
  IN IF ~VisibleEvent(in) THEN Respond(to, "404", <<>>)
     ELSE IF in.event.schema = None THEN Respond(to, "400", <<>>)
     ELSE IF match = <<>> THEN Respond(to, "404", <<>>)
     ELSE Answer(to, in.event.schema, match, VisibleReports(in), {team})

Init ==
  /\ input \in Inputs
  /\ answer = None

EventStats ==
  /\ answer = None
  /\ answer' = EventAnswer(input)
  /\ UNCHANGED input

MatchTeamStats(key, team) ==
  /\ answer = None
  /\ answer' = MatchAnswer(input, key, team)
  /\ UNCHANGED input

\* The keys and teams a client may ask for: those of the rows, and others.
AskedKeys == {m.key : m \in ToSet(input.matches)} \cup {None}
AskedTeams == {r.team : r \in ToSet(input.reports)} \cup Teams(input.matches)

Next == EventStats \/ \E key \in AskedKeys, team \in AskedTeams : MatchTeamStats(key, team)

Spec == Init /\ [][Next]_vars

-----------------------------------------------------------------------------
(* What the code takes for granted of the rows, and nothing enforces but   *)
(* the primary key of matches.  Some of the properties rest on it.         *)

\* Every element once: at most one index has the value of each.
Once(seq, Value(_)) == \A i, j \in DOMAIN seq : Value(seq[i]) = Value(seq[j]) => i = j

\* A stat is described once, and by one kind of reference only (summary.go:45).
IsSchema(schema) ==
  /\ Once(schema, LAMBDA field : field.name)
  /\ \A field \in ToSet(schema) :
       /\ field.sum # <<>> => field.report = None /\ field.tba = None
       /\ field.tba # None => field.report = None

\* A key names one match, and a team has one seat in a match.
IsSchedule(matches) ==
  /\ Once(matches, LAMBDA match : match.key)
  /\ \A match \in ToSet(matches) : Once(Seats(match), LAMBDA team : team)

WellFormed(in) == IsSchedule(in.matches) /\ (in.event.schema # None => IsSchema(in.event.schema))

\* The averages of an event are integers: Unit is chosen so.
Exact(in) ==
  (in.event.schema # None /\ ~Panics(in.matches)) =>
    \A team \in Teams(in.matches) :
      LET played == SelectTeamMatches(in.matches, VisibleReports(in), team)
          records == Each(played, LAMBDA match : SummarizeMatch(in.event.schema, match))
      IN \A name \in UNION {DOMAIN r : r \in ToSet(records)} :
           Total(Means(records, name)) % Len(Means(records, name)) = 0

-----------------------------------------------------------------------------
(* Properties                                                              *)

Answered == answer # None /\ answer.status = "200"
ForEvent == Answered /\ answer.to = <<>>
ForMatch == Answered /\ answer.to # <<>>

\* The two endpoints agree, and every match weighs the same: a team's average
\* at an event is the mean of what the match endpoint answers for the matches
\* in which the stat was recorded, and its maximum the greatest of them
\* (summary.go:85 "we need to average them so one match isn't weighted twice").
EventIsMeanOfMatches ==
  ForEvent =>
    \A team \in DOMAIN answer.stats :
      LET inMatch == [key \in {m.key : m \in ToSet(input.matches)} |->
                        MatchAnswer(input, key, team).stats[team]]
      IN \A name \in DOMAIN answer.stats[team] :
           LET recorded == {key \in DOMAIN inMatch : name \in DOMAIN inMatch[key]}
               stat == answer.stats[team][name]
           IN /\ stat.average * Cardinality(recorded)
                   = MapThenSumSet(LAMBDA key : inMatch[key][name].average, recorded)
              /\ \A key \in recorded : stat.max >= inMatch[key][name].max
              /\ \E key \in recorded : stat.max = inMatch[key][name].max

\* A sum in a match is the sum of the averages beside it in the same answer,
\* however many reports there are (summarizeSum).
SumsAddUp ==
  ForMatch =>
    LET stats == answer.stats[answer.to[2]]
        Average(name) == stats[name].average
    IN \A field \in ToSet(input.event.schema) :
         (field.sum # <<>> /\ field.name \in DOMAIN stats) =>
           Average(field.name) = Total(Each(field.sum, Average))

\* A stat with a positional reference is taken from the team's own alliance
\* and its own, one-indexed seat in it (summary.go:24).  Only where blue is no
\* longer than red: the code divides by the length of red for both.
RobotInOwnPosition ==
  ForMatch =>
    \A match \in {m \in ToSet(input.matches) :
                    m.key = answer.to[1] /\ Len(m.blue) <= Len(m.red)},
       field \in {f \in ToSet(input.event.schema) : f.tba # None /\ f.tba.positional} :
      LET team == answer.to[2]
          OwnSeat(alliance, breakdown) ==
            \A i \in DOMAIN alliance :
              (alliance[i] = team /\ <<field.tba.stem, i>> \in DOMAIN breakdown) =>
                /\ field.name \in DOMAIN answer.stats[team]
                /\ answer.stats[team][field.name].average
                     = Number(breakdown[<<field.tba.stem, i>>])
      IN /\ OwnSeat(match.red, match.redBreakdown)
         /\ OwnSeat(match.blue, match.blueBreakdown)

\* A match that nobody scouted, and that TBA has no breakdown of, does not
\* count: no team's stats change when it is left out (summary.go:222).
UnscoutedMatchesDoNotCount ==
  ForEvent =>
    LET Known(m) == \/ m.redBreakdown # <<>>
                    \/ m.blueBreakdown # <<>>
                    \/ \E r \in ToSet(VisibleReports(input)) : r.match = m.key
        known == EventAnswer([input EXCEPT !.matches =
                                Among({m \in ToSet(@) : Known(m)}, @)])
    IN \A team \in DOMAIN answer.stats :
         answer.stats[team] = IF team \in DOMAIN known.stats THEN known.stats[team] ELSE <<>>

\* The queries have no ORDER BY: the order of the rows changes no answer.
RowOrderIsFree ==
  ForEvent =>
    answer = EventAnswer([input EXCEPT !.matches = Reverse(@), !.reports = Reverse(@)])

=============================================================================
