------------------------------- MODULE PickTable -------------------------------
(***************************************************************************)
(* The table picks as the jobs see it that read all of it: when a row      *)
(* appears, when it is resolved, and on what day.  That a pick is settled  *)
(* once and for all is what Settlement shows; here a settlement is the     *)
(* step that commits it.                                                   *)
(***************************************************************************)
EXTENDS Naturals, FiniteSets

CONSTANTS
  Picks,        \* pick ids, in the order of their uuids, which is no order of time
  Days,         \* days, numbered
  YearOf,       \* day -> its year
  RunDate,      \* pick -> run_date, which the pipeline takes from its caller
  Stake,        \* pick -> stake; 0 is NULL
  Odds          \* pick -> odds_decimal

ASSUME PickTableAssumption ==
  /\ Picks \subseteq Nat \ {0} /\ IsFiniteSet(Picks)
  /\ Days \subseteq Nat \ {0} /\ Days # {}
  /\ YearOf \in [Days -> Nat \ {0}]
  /\ RunDate \in [Picks -> Days]
  /\ Stake \in [Picks -> Nat]
  /\ Odds \in [Picks -> Nat \ {0, 1}]

VARIABLES
  picks,        \* pick -> its committed row
  today

pickTable == <<picks, today>>

Outcomes == {"won", "lost", "push", "void"}

\* resolved is the day of resolved_at; 0 is NULL.
PickRow == [status : {"absent", "pending"} \cup Outcomes, resolved : Days \cup {0}]
NoPick == [status |-> "absent", resolved |-> 0]

Exists(p) == picks[p].status # "absent"
Resolved(p) == picks[p].status \in Outcomes

InitPickTable ==
  /\ picks = [p \in Picks |-> NoPick]
  /\ today \in Days

\* create_pick, or the pipeline: the ids come from uuid4, so that any may be next.
CreatePick(p) ==
  /\ picks[p].status = "absent"
  /\ picks' = [picks EXCEPT ![p].status = "pending"]
  /\ UNCHANGED today

\* Mutant: the outcome of a settled pick can be corrected.
CorrectPick(p) ==
  /\ Exists(p)
  /\ \E outcome \in Outcomes :
       /\ outcome # "void" => Stake[p] > 0
       /\ picks' = [picks EXCEPT ![p] = [status |-> outcome, resolved |-> today]]
  /\ UNCHANGED today

\* execute_settlement: resolve, delete (void) or reject (void).
SettlePick(p) ==
  /\ picks[p].status = "pending"
  /\ \E outcome \in Outcomes :
       /\ outcome # "void" => Stake[p] > 0
       /\ picks' = [picks EXCEPT ![p] = [status |-> outcome, resolved |-> today]]
  /\ UNCHANGED today

\* update_pick or confirm_pick, which may also reach a pick settled meanwhile (Settlement).
\* Its new figures are not kept apart from the old ones: that something was committed is
\* all that the jobs below could notice.
EditPick(p) ==
  /\ Exists(p)
  /\ UNCHANGED pickTable

Tomorrow ==
  /\ \E day \in Days : today < day /\ today' = day
  /\ UNCHANGED picks
=============================================================================
