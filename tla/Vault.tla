------------------------------- MODULE Vault -------------------------------
(***************************************************************************)
(* What /dev/Secret promises its users: one secret at a time, a queue of   *)
(* bytes that its owner reads once and in order, and that is gone when the *)
(* last file closes after somebody has opened it for reading.  There is no *)
(* live update here: an update of the driver must not be seen.  A crash    *)
(* loses the secret and, as files may stay open that the next instance of  *)
(* the driver does not know of, a later secret may go early.               *)
(***************************************************************************)
EXTENDS Integers, Sequences

CONSTANTS Fd, Uid, Request, SECRET_SIZE, NONE

VARIABLES crashed,  \* the driver has crashed before
          fds,      \* open files: user and mode, or NONE
          owner,    \* of the secret, NONE when the device is empty
          seen,     \* somebody has opened the secret for reading
          used,     \* bytes accepted so far
          queue,    \* bytes not read yet
          got       \* what the last read returned

IsOpen(f, m) == fds[f] # NONE /\ fds[f].mode = m
Least(a, b) == IF a < b THEN a ELSE b

Init ==
    /\ fds = [f \in Fd |-> NONE]
    /\ owner = NONE /\ seen = FALSE
    /\ used = 0 /\ queue = <<>> /\ got = <<>>
    /\ crashed = FALSE

Open(f, u, m) ==
    /\ fds[f] = NONE
    /\ owner = NONE \/ (m = "R" /\ owner = u)
    /\ fds' = [fds EXCEPT ![f] = [uid |-> u, mode |-> m]]
    /\ owner' = u
    /\ seen' = (seen \/ m = "R")
    /\ UNCHANGED <<used, queue>> /\ got' = <<>>

\* The secret is gone.
Forgotten == owner' = NONE /\ seen' = FALSE /\ used' = 0 /\ queue' = <<>>

\* The last close forgets a secret that was seen; after a crash any close may.
Close(f) ==
    /\ fds[f] # NONE
    /\ fds' = [fds EXCEPT ![f] = NONE]
    /\ \/ seen /\ (crashed \/ \A g \in Fd \ {f} : fds[g] = NONE) /\ Forgotten
       \/ /\ ~(seen /\ \A g \in Fd \ {f} : fds[g] = NONE)
          /\ UNCHANGED <<owner, seen, used, queue>>
    /\ got' = <<>>

\* The driver ends and starts again, with the files closed or not.
Crash ==
    /\ crashed' = TRUE
    /\ \A f \in Fd : fds'[f] \in {fds[f], NONE}
    /\ Forgotten
    /\ got' = <<>>

\* Whoever has a file open gives the secret away, and reads on himself.
Grant(f, u) ==
    /\ fds[f] # NONE
    /\ owner' = u
    /\ UNCHANGED <<fds, seen, used, queue>> /\ got' = <<>>

Read(f, n) ==
    /\ IsOpen(f, "R")
    /\ LET k == Least(n, Len(queue))
       IN  /\ got' = SubSeq(queue, 1, k)
           /\ queue' = SubSeq(queue, k + 1, Len(queue))
    /\ UNCHANGED <<fds, owner, seen, used>>

Write(f, data) ==
    /\ IsOpen(f, "W")
    /\ LET k == Least(Len(data), SECRET_SIZE - used)
       IN  /\ queue' = queue \o SubSeq(data, 1, k)
           /\ used' = used + k
    /\ UNCHANGED <<fds, owner, seen>> /\ got' = <<>>

Serve ==
    \E f \in Fd :
        \/ \E u \in Uid : Grant(f, u) \/ \E m \in {"R", "W"} : Open(f, u, m)
        \/ Close(f)
        \/ \E data \in Request : Read(f, Len(data)) \/ Write(f, data)

\* What users see of a step that concerns none of them.
Idle == got' = <<>> /\ UNCHANGED <<fds, owner, seen, used, queue>>

Next == Crash \/ ((Serve \/ Idle) /\ UNCHANGED crashed)

Spec == Init /\ [][Next]_<<crashed, fds, owner, seen, used, queue, got>>
=============================================================================
