----------------------------- MODULE WriteOnce -----------------------------
(***************************************************************************)
(* What a caller of the immutable stores is promised: a path is a register *)
(* that is absent until one content is published and never changes after;  *)
(* a publication answers "ok" only while the register holds the caller's   *)
(* bytes and "conflict" only while it holds other bytes.  A power loss may *)
(* make it forget a publication, but only as a whole.                      *)
(***************************************************************************)
CONSTANTS Writers, Paths, Contents,
          Absent      \* the value of a path that was never published

VARIABLES register,   \* register[p]: the published content of p, or Absent
          request,    \* request[w]: the publication w waits for, or Absent
          answer      \* answer[w]: how w's last publication ended

vars == <<register, request, answer>>

Init ==
  /\ register = [p \in Paths |-> Absent]
  /\ request = [w \in Writers |-> Absent]
  /\ answer = [w \in Writers |-> "none"]

Ask(w, p, c) ==
  /\ request[w] = Absent
  /\ request' = [request EXCEPT ![w] = [path |-> p, content |-> c]]
  /\ answer' = [answer EXCEPT ![w] = "none"]
  /\ UNCHANGED register

\* The one step that changes a register, from absent and for a waiting writer.
Publish(w) ==
  /\ request[w] # Absent
  /\ register[request[w].path] = Absent
  /\ register' = [register EXCEPT ![request[w].path] = request[w].content]
  /\ UNCHANGED <<request, answer>>

Permitted(w, a) ==
  CASE a = "ok"       -> register[request[w].path] = request[w].content
    [] a = "conflict" -> register[request[w].path] \notin {Absent, request[w].content}
    [] OTHER          -> TRUE

Answer(w, a) ==
  /\ request[w] # Absent
  /\ Permitted(w, a)
  /\ answer' = [answer EXCEPT ![w] = a]
  /\ request' = [request EXCEPT ![w] = Absent]
  /\ UNCHANGED register

\* A power loss: some registers are absent again, and nobody waits any more.
Lose(gone) ==
  /\ register' = [p \in Paths |-> IF p \in gone THEN Absent ELSE register[p]]
  /\ request' = [w \in Writers |-> Absent]
  /\ answer' = [w \in Writers |-> IF request[w] = Absent THEN answer[w] ELSE "killed"]

Next ==
  \/ \E w \in Writers :
       \/ \E p \in Paths, c \in Contents : Ask(w, p, c)
       \/ Publish(w)
       \/ \E a \in {"ok", "conflict", "error", "killed"} : Answer(w, a)
  \/ \E gone \in SUBSET Paths : Lose(gone)

Spec == Init /\ [][Next]_vars
=============================================================================
