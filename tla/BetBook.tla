-------------------------------- MODULE BetBook --------------------------------
(***************************************************************************)
(* What the settlement core promises, without requests, locks, ledger or   *)
(* retries: a bet takes its stake out of the user's free money when it is  *)
(* placed, and pays what its outcome is worth when it is closed, each once *)
(* and in one step.                                                        *)
(***************************************************************************)
EXTENDS Integers

CONSTANTS
  Bets,     \* bets that may be placed
  Users,
  NoUser,   \* a bet without a stake is nobody's
  Stakes, Odds, Funding

VARIABLES
  cash,     \* user -> money free to bet with
  bet       \* bet -> its row

vars == <<cash, bet>>

Unplaced == [status |-> "absent", user |-> NoUser, stake |-> 0, odds |-> 0, profit |-> 0]

Init ==
  /\ cash = [u \in Users |-> Funding[u]]
  /\ bet = [b \in Bets |-> Unplaced]

\* What a closed bet gains, and what its user gets back of the stake.
Gain(stake, odds, outcome) ==
  CASE outcome = "won" -> stake * odds - stake
    [] outcome = "lost" -> -stake
    [] OTHER -> 0

\* A bet without a stake can only be noted.
Note(b, o) ==
  /\ bet[b].status = "absent"
  /\ bet' = [bet EXCEPT ![b] = [status |-> "pending", user |-> NoUser,
                                stake |-> 0, odds |-> o, profit |-> 0]]
  /\ UNCHANGED cash

Place(b, u, s, o) ==
  /\ bet[b].status = "absent"
  /\ cash[u] >= s
  /\ bet' = [bet EXCEPT ![b] = [status |-> "pending", user |-> u,
                                stake |-> s, odds |-> o, profit |-> 0]]
  /\ cash' = [cash EXCEPT ![u] = @ - s]

\* The stake comes back with the gain: nothing of it for a lost bet.
Close(b, outcome) ==
  LET gain == Gain(bet[b].stake, bet[b].odds, outcome) IN
  /\ bet[b].status = "pending"
  /\ bet[b].stake > 0 \/ outcome = "void"
  /\ bet' = [bet EXCEPT ![b] = [@ EXCEPT !.status = outcome, !.profit = gain]]
  /\ cash' = [u \in Users |->
                IF u = bet[b].user THEN cash[u] + bet[b].stake + gain ELSE cash[u]]

Next ==
  \E b \in Bets :
    \/ \E o \in Odds : Note(b, o)
    \/ \E u \in Users, s \in Stakes, o \in Odds : Place(b, u, s, o)
    \/ \E outcome \in {"won", "lost", "push", "void"} : Close(b, outcome)

Spec == Init /\ [][Next]_vars
=============================================================================
