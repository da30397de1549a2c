---------------------------- MODULE AbsSemaphore -----------------------------
(***************************************************************************)
(* What a counting semaphore promises, with no scheduler in sight: a unit  *)
(* is there to take, or the users stand in line and are served first come, *)
(* first served; a unit that was given to a user is collected by it.       *)
(***************************************************************************)
EXTENDS Naturals, Sequences

CONSTANT Users

VARIABLES
  avail,  \* units nobody holds
  line,   \* users waiting, first come first
  granted \* users that were served and have not noticed yet

absVars == <<avail, line, granted>>

AbsInit ==
  /\ avail \in Nat
  /\ line = <<>>
  /\ granted = {}

\* A unit is taken on the spot; nobody may be standing in line.
Take ==
  /\ avail > 0 /\ line = <<>>
  /\ avail' = avail - 1
  /\ UNCHANGED <<line, granted>>

Stand(u) ==
  /\ avail = 0
  /\ u \notin granted
  /\ \A i \in DOMAIN line : line[i] # u
  /\ line' = Append(line, u)
  /\ UNCHANGED <<avail, granted>>

Give ==
  \/ /\ line = <<>>
     /\ avail' = avail + 1
     /\ UNCHANGED <<line, granted>>
  \/ /\ line # <<>>
     /\ granted' = granted \cup {Head(line)}
     /\ line' = Tail(line)
     /\ UNCHANGED avail

\* A served user goes its way with the unit.
Collect(u) ==
  /\ u \in granted
  /\ granted' = granted \ {u}
  /\ UNCHANGED <<avail, line>>

\* A user that has waited too long leaves the line.
GiveUp(u) ==
  /\ \E i \in DOMAIN line :
       /\ line[i] = u
       /\ line' = SubSeq(line, 1, i - 1) \o SubSeq(line, i + 1, Len(line))
  /\ UNCHANGED <<avail, granted>>

AbsNext ==
  \/ Take
  \/ Give
  \/ \E u \in Users : Stand(u) \/ Collect(u) \/ GiveUp(u)

AbsSpec     == AbsInit /\ [][AbsNext]_absVars
AbsFairSpec == AbsSpec /\ \A u \in Users : WF_absVars(Collect(u))

=============================================================================
