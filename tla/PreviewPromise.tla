----------------------------- MODULE PreviewPromise -----------------------------
(***************************************************************************)
(* What link previews promise the sender of one message: its links are     *)
(* those it was published with, what the sender took back stays taken      *)
(* back, and every link is looked up in the end, up to the first one whose *)
(* host does not answer.  LinkPreviews implements this.                    *)
(***************************************************************************)
EXTENDS Naturals

CONSTANT Links    \* numbers, in the order of the text

VARIABLES
  links, complete,  \* the message's links; whether its text is the final one
  taken,            \* subset of {"hidden", "deleted"}: what the sender did to it
  found,            \* links that a preview was found or fetched for
  unreachable       \* links whose host does not answer

vars == <<links, complete, taken, found, unreachable>>

Init ==
  /\ links = {} /\ complete = FALSE /\ taken = {} /\ found = {}
  /\ unreachable \in SUBSET Links

\* The text, or a part of it while it is still being written.
Write ==
  /\ ~complete
  /\ links' \in SUBSET Links /\ complete' \in BOOLEAN
  /\ UNCHANGED <<taken, found, unreachable>>

TakeBack(how) ==
  /\ complete /\ taken' = taken \union {how}
  /\ UNCHANGED <<links, complete, found, unreachable>>

Find ==
  /\ complete
  /\ found \subseteq found' /\ found' \subseteq found \union links
  /\ UNCHANGED <<links, complete, taken, unreachable>>

Next == Write \/ (\E how \in {"hidden", "deleted"} : TakeBack(how)) \/ Find

\* The links that no dead host stands before.
Due == {u \in links : \A v \in links \intersect unreachable : u < v}

Spec == Init /\ [][Next]_vars /\ (complete ~> Due \subseteq found)
=================================================================================
