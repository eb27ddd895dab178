---------------------------- MODULE LatestAnswer ----------------------------
(***************************************************************************)
(* What the cover loader promises to each of those who ask it: one         *)
(* question at a time, the newest; an answer that is to that question and  *)
(* to none before it; and the answer given once.                           *)
(***************************************************************************)
CONSTANTS
  Askers,
  Questions,
  Nothing,           \* no question, or no answer yet
  Answers(_, _)      \* the answers that may be given an asker to a question

VARIABLES asked, answer

vars == <<asked, answer>>

Init == /\ asked = [a \in Askers |-> Nothing]
        /\ answer = [a \in Askers |-> Nothing]

Ask(a) == /\ asked'[a] \in Questions
          /\ answer'[a] = Nothing

Forget(a) == /\ asked'[a] = Nothing
             /\ answer'[a] = Nothing

Answer(a) == /\ asked[a] # Nothing /\ answer[a] = Nothing
             /\ answer'[a] \in Answers(a, asked[a])
             /\ asked'[a] = asked[a]

Keep(a) == /\ asked'[a] = asked[a]
           /\ answer'[a] = answer[a]

\* Whoever takes an answer, or gives up, has nothing asked any more.
Next == \A a \in Askers : Ask(a) \/ Forget(a) \/ Answer(a) \/ Keep(a)

Spec == Init /\ [][Next]_vars
=============================================================================
