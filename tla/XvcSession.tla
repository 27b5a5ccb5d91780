----------------------------- MODULE XvcSession -----------------------------
(***************************************************************************)
(* What an XVC 1.1 engine promises to a client, without buffers, chunks    *)
(* or batches: the requests of a connection are served one at a time in    *)
(* the order they were written, each gets one reply, an error makes every  *)
(* later command do nothing until "error:" collects it, and the scan chain *)
(* is locked and unlocked alternately.  Everything a callback decides is   *)
(* left open.  XvcServer and DpcServer are shown to implement this module. *)
(***************************************************************************)
EXTENDS Naturals, Sequences

CONSTANTS Requests,  \* the requests a client may send: records with a cmd
          Calling,   \* the commands whose work a callback does
          Terse      \* those of them whose status the client must ask for

VARIABLES up,      \* a connection is being served
          todo,    \* requests written and not yet served
          outbox,  \* replies not yet on the wire
          inbox,   \* replies the client can read
          err,     \* an error waits to be collected
          held     \* the lock callback succeeded and unlock has not since

vars == <<up, todo, outbox, inbox, err, held>>

Init ==
    /\ up = FALSE
    /\ todo = <<>> /\ outbox = <<>> /\ inbox = <<>>
    /\ err = FALSE /\ held = FALSE

Connect ==
    /\ ~up
    /\ up' = TRUE
    /\ todo' = <<>> /\ outbox' = <<>> /\ inbox' = <<>>
    /\ err' = FALSE /\ held' = FALSE

\* The client writes a request.
Issue ==
    /\ up
    /\ \E r \in Requests : todo' = Append(todo, r)
    /\ UNCHANGED <<up, outbox, inbox, err, held>>

\* The next request has its effect and its reply is ready: e is the error flag
\* and h the lock after it.
Serve(ran, status, e, h) ==
    /\ up /\ todo # <<>>
    /\ todo' = Tail(todo)
    /\ outbox' = Append(outbox, [cmd |-> Head(todo).cmd, ran |-> ran,
                                 status |-> status])
    /\ err' = e
    /\ held' = h
    /\ UNCHANGED <<up, inbox>>

StatusOf(e) == IF e THEN "err" ELSE "ok"

\* getinfo and capabilities report nothing and change nothing.
ServeQuery ==
    /\ todo # <<>> /\ Head(todo).cmd \in {"getinfo", "capabilities"}
    /\ Serve(FALSE, "none", err, held)

ServeError ==
    /\ todo # <<>> /\ Head(todo).cmd = "error"
    /\ Serve(FALSE, "none", FALSE, held)

\* An option may be refused, which is an error.
ServeConfigure ==
    /\ todo # <<>> /\ Head(todo).cmd = "configure"
    /\ \E e \in BOOLEAN :
          /\ err => e
          /\ Serve(FALSE, StatusOf(e), e, held)

\* A work command calls its callback exactly when no error waits; only a terse
\* one may leave the status out.
ServeWork ==
    /\ todo # <<>>
    /\ Head(todo).cmd \in Calling \ {"lock", "unlock"}
    /\ \E e \in BOOLEAN :
          /\ err => e
          /\ \E status \in {StatusOf(e)} \cup
                    (IF Head(todo).cmd \in Terse THEN {"none"} ELSE {}) :
                Serve(~err, status, e, held)

\* lock is answered only when no reply to an earlier request is held back,
\* except an empty one, and reports "ok" only if it took the free lock.
ServeLock ==
    /\ todo # <<>> /\ Head(todo).cmd = "lock"
    /\ \E e, ran \in BOOLEAN :
          /\ err => e
          /\ ran => ~err /\ ~held
          /\ ~ran => e
          /\ \A i \in DOMAIN outbox :
                outbox[i].cmd = "shift" /\ outbox[i].status = "none"
          /\ Serve(ran, StatusOf(e), e, held \/ ~e)

ServeUnlock ==
    /\ todo # <<>> /\ Head(todo).cmd = "unlock"
    /\ \E e, ran \in BOOLEAN :
          /\ err => e
          /\ ran => ~err /\ held
          /\ ~ran => e
          /\ Serve(ran, StatusOf(e), e, held /\ e)

\* The replies leave together.
Deliver ==
    /\ up /\ outbox # <<>>
    /\ inbox' = inbox \o outbox
    /\ outbox' = <<>>
    /\ UNCHANGED <<up, todo, err, held>>

\* Completing the deferred work of the replies that are about to leave may
\* reveal an error; it is reported to the commands after them.
LateError ==
    /\ up /\ outbox # <<>>
    /\ err' = TRUE
    /\ UNCHANGED <<up, todo, outbox, inbox, held>>

\* The connection ends; what was not served or not delivered is lost, and the
\* engine forgets the error and the lock.
Disconnect ==
    /\ up
    /\ up' = FALSE
    /\ todo' = <<>> /\ outbox' = <<>>
    /\ err' = FALSE /\ held' = FALSE
    /\ UNCHANGED inbox

Next == \/ Connect \/ Issue \/ ServeQuery \/ ServeError \/ ServeConfigure
        \/ ServeWork \/ ServeLock \/ ServeUnlock \/ Deliver \/ LateError
        \/ Disconnect

Spec == Init /\ [][Next]_vars
=============================================================================
