----------------------------- MODULE NetBuilding -----------------------------
(***************************************************************************)
(* apps/ff_net/submodules/net_building.py: how one intercept report is     *)
(* routed to a net, as the service runs it on a DataFrame of all nets (the *)
(* members).  Members are a table net_id -> row; the hidden columns _f_lo  *)
(* and _f_hi are a second table, net_id -> set of channels.                *)
(*                                                                         *)
(* Frequencies and half bandwidths are channel numbers, so a closed band   *)
(* is an interval of integers and two bands overlap when they meet.  A     *)
(* date is month * 100 + day, which orders as the dates of one year do.    *)
(***************************************************************************)
EXTENDS NetMerging, Cassandra, FiniteSetsExt

MyNetStart == 1
SystemNetStart == 100001

\* ff_id and lti are the primary key of ff_net_report, never null.
Report ==
  [ff : Nat, rdfs : Int, freq : Int, half : Nat, loc : Int,
   fti : Nat, lti : Nat, nti : Nat]

ReportKey(rep) == <<rep.ff, rep.lti>>

\* _report_signature over _SIG_COLS: what a report is recognised by in the log.
Signature(rep) == <<rep.ff, rep.fti, rep.lti, rep.nti, rep.freq>>

------------------------------------------------------------------------------
\* Matching.

\* _report_band; _member_band prefers the band tracked in this run to the row's.
Band(r) == IF r.freq = Null THEN {} ELSE (r.freq - r.half)..(r.freq + r.half)

NoSpan == {}

MemberBand(row, span) == IF span = NoSpan THEN Band(row) ELSE span

\* Mutant: the station is not compared.
SameEmitterAnywhere(row, span, rep) ==
  row.ff = rep.ff \/ MemberBand(row, span) \cap Band(rep) # {}

\* The same emitter on the same station: by its id, else by overlapping bands.
SameEmitter(row, span, rep) ==
  /\ rep.rdfs # Null
  /\ row.rdfs = rep.rdfs
  /\ \/ row.ff = rep.ff
     \/ MemberBand(row, span) \cap Band(rep) # {}

Candidates(members, spans, rep) ==
  {n \in DOMAIN members : SameEmitter(members[n], spans[n], rep)}

\* max(cand, key=_lti_key): any of the latest, for the order of the rows is the
\* token order of their keys.
Newest(members, cand) ==
  {n \in cand : \A m \in cand : members[m].lti <= members[n].lti}

------------------------------------------------------------------------------
\* collapse_into.

\* A date is written back as text, day first.  In a column of timestamps pandas
\* parses the text again, month first if it can: day and month change places when
\* the day could be a month.
Reparsed(date) ==
  LET month == date \div 100
      day   == date % 100
  IN  IF day <= 12 THEN day * 100 + month ELSE date

StoredDate(date, timestamps) == IF timestamps THEN Reparsed(date) ELSE date

Earliest(d, e) == IF d = Null \/ e < d THEN e ELSE d
Latest(d, e) == IF d < e THEN e ELSE d

\* A column of the newer record, unless it is null there.
Newer(old, new) == IF new = Null THEN old ELSE new

\* Mutants: the counts are not summed; FTI and LTI follow the newest report.
CollapsedUncounted(row, rep, timestamps) ==
  [row EXCEPT !.fti = StoredDate(Earliest(@, rep.fti), timestamps),
              !.lti = StoredDate(Latest(@, rep.lti), timestamps),
              !.nti = rep.nti]

CollapsedToNewest(row, rep, timestamps) ==
  [row EXCEPT !.fti = rep.fti, !.lti = rep.lti, !.nti = @ + rep.nti]

Collapsed(row, rep, timestamps) ==
  LET newest == IF rep.lti >= row.lti
                  THEN [row EXCEPT !.ff = rep.ff, !.freq = Newer(@, rep.freq),
                                   !.half = rep.half, !.loc = Newer(@, rep.loc)]
                  ELSE row
  IN  [newest EXCEPT
         !.fti = StoredDate(Earliest(@, rep.fti), timestamps),
         !.lti = StoredDate(Latest(@, rep.lti), timestamps),
         !.nti = (IF @ = Null THEN 0 ELSE @) + rep.nti]

\* The tracked band after the collapse: the span of what was tracked before and
\* the report's band.  What the row itself says is not part of it.
Widened(span, rep) ==
  LET seen == span \cup Band(rep)
  IN  IF seen = {} THEN NoSpan ELSE Min(seen)..Max(seen)

------------------------------------------------------------------------------
\* assign_net, with the concatenation of a new row that its caller does.

\* Mutants: the highest net_id, or the highest my_net_id, is taken again.
NextNetIdTaken(members) ==
  IF DOMAIN members = {} THEN SystemNetStart ELSE Max(DOMAIN members)

NextMyNetIdTaken(members) ==
  IF DOMAIN members = {} THEN MyNetStart
  ELSE Max({members[n].my : n \in DOMAIN members})

NextNetId(members) ==
  IF DOMAIN members = {} THEN SystemNetStart ELSE Max(DOMAIN members) + 1

NextMyNetId(members) ==
  IF DOMAIN members = {} THEN MyNetStart
  ELSE Max({members[n].my : n \in DOMAIN members}) + 1

NewRow(rep, my) ==
  [my |-> my, rdfs |-> rep.rdfs, ff |-> rep.ff, freq |-> rep.freq,
   half |-> rep.half, loc |-> rep.loc, fti |-> rep.fti, lti |-> rep.lti,
   nti |-> rep.nti]

\* Mutant: an updated net is put into a group of its own.
CollapseAlone(members, spans, rep, timestamps, n) ==
  [net     |-> n,
   action  |-> "collapsed",
   members |-> [members EXCEPT ![n] =
                  [Collapsed(@, rep, timestamps) EXCEPT !.my = NextMyNetId(members)]],
   spans   |-> [spans EXCEPT ![n] = Widened(@, rep)]]

\* What routing rep can do: the net it goes to, how, and the members after it.
CollapseInto(members, spans, rep, timestamps, n) ==
  [net     |-> n,
   action  |-> "collapsed",
   members |-> [members EXCEPT ![n] = Collapsed(@, rep, timestamps)],
   spans   |-> [spans EXCEPT ![n] = Widened(@, rep)]]

SpawnNet(members, spans, rep) ==
  LET n == NextNetId(members)
  IN  [net     |-> n,
       action  |-> "new",
       members |-> Insert(members, n, NewRow(rep, NextMyNetId(members))),
       spans   |-> Insert(spans, n, Band(rep))]

AssignNet(members, spans, rep, timestamps) ==
  LET cand == Candidates(members, spans, rep)
  IN  IF cand = {}
        THEN {SpawnNet(members, spans, rep)}
        ELSE {CollapseInto(members, spans, rep, timestamps, n) :
                n \in Newest(members, cand)}
==============================================================================
