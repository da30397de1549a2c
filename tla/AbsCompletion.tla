---------------------------- MODULE AbsCompletion ----------------------------
(***************************************************************************)
(* What a completion promises: posts are counted up to a limit at which    *)
(* the count stands for "everybody, for ever"; a user returns with one of  *)
(* them, or, if it may give up, only when there is none.                   *)
(***************************************************************************)
EXTENDS Naturals

CONSTANTS
  CUsers,     \* who may wait
  CImpatient, \* who may give up
  CForever    \* the count that is never used up

VARIABLES
  posts,      \* completions that nobody has consumed
  inside      \* users that wait

compAbsVars == <<posts, inside>>

AbsCompInit == posts = 0 /\ inside = {}

Consumed == IF posts = CForever THEN posts ELSE posts - 1

Pass == posts > 0 /\ posts' = Consumed /\ UNCHANGED inside

Stay(u) ==
  /\ posts = 0
  /\ inside' = inside \cup {u}
  /\ UNCHANGED posts

Post == posts < CForever /\ posts' \in {posts + 1, CForever} /\ UNCHANGED inside

Leave(u) ==
  /\ u \in inside
  /\ inside' = inside \ {u}
  /\ \/ posts > 0 /\ posts' = Consumed
     \/ posts = 0 /\ u \in CImpatient /\ UNCHANGED posts

AbsCompNext == Pass \/ Post \/ \E u \in CUsers : Stay(u) \/ Leave(u)

AbsCompSpec == AbsCompInit /\ [][AbsCompNext]_compAbsVars

=============================================================================
