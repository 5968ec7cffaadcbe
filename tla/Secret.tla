------------------------------- MODULE Secret -------------------------------
(***************************************************************************)
(* The MINIX driver of Asgn4/secret.c for /dev/Secret.  A driver serves    *)
(* one request at a time, so every callback is one step, except live       *)
(* update: the state goes field by field through the data store, and each  *)
(* call to the store may fail.                                             *)
(*                                                                         *)
(* External: the file system keeps the open files and lets a file be read  *)
(* or written only in the mode it was opened in; when a save or a restore  *)
(* fails, the old instance goes on; after a crash the driver is started    *)
(* again, and the files that were open may or may not have survived.       *)
(***************************************************************************)
EXTENDS Integers, Sequences, FiniteSets

CONSTANTS Fd,           \* open files, as the file system numbers them
          Uid,          \* users, 0 (which cleared memory holds too) among them
          Request,      \* what a write may carry; a read asks for as much
          SECRET_SIZE,
          NONE,         \* no file, nothing in the data store
          MaxReplacements   \* bound on live updates and crashes together

\* The values of an unsigned word.
WordMod == 65536

ASSUME SizeAssumption == SECRET_SIZE \in 1 .. WordMod - 1
ASSUME FdAssumption == IsFiniteSet(Fd)
ASSUME BoundsAssumption == MaxReplacements \in Nat
ASSUME UidAssumption == 0 \in Uid /\ NONE \notin Uid
ASSUME NoneAssumption == NONE \notin [uid : Uid, mode : {"R", "W"}]
ASSUME RequestAssumption == Request \subseteq Seq(Nat)

VARIABLES
    secret,     \* the state of the running instance
    fds,        \* [uid, mode] of an open file, or NONE
    got,        \* what the last read returned
    owners,     \* history: who has owned the present secret
    lu,         \* live update: "off", "save" or "restore"
    at,         \* the field whose turn it is
    ds,         \* the data store
    fresh,      \* the state of the new instance
    updates, restarts

vars == <<secret, fds, got, owners, lu, at, ds, fresh, updates, restarts>>

\* The fields in the order of sef_cb_lu_state_save() and lu_state_restore().
Fields == <<"open_counter", "secret_buf", "secret_len", "read_offset",
            "secret_owner", "has_owner", "read_fd_opened">>

FieldNames == {Fields[i] : i \in DOMAIN Fields}

Byte == {0} \cup UNION {{data[i] : i \in DOMAIN data} : data \in Request}

\* struct secret_state.
State ==
    [open_counter : 0 .. Cardinality(Fd),
     secret_owner : Uid,
     has_owner : BOOLEAN,
     secret_buf : [1 .. SECRET_SIZE -> Byte],
     secret_len : 0 .. SECRET_SIZE,
     read_offset : 0 .. SECRET_SIZE,
     read_fd_opened : BOOLEAN]

\* reset_secret_state(); also the memory a new instance starts with.
Cleared ==
    [open_counter |-> 0,
     secret_owner |-> 0,
     has_owner |-> FALSE,
     secret_buf |-> [i \in 1 .. SECRET_SIZE |-> 0],
     secret_len |-> 0,
     read_offset |-> 0,
     read_fd_opened |-> FALSE]

Opened == {f \in Fd : fds[f] # NONE}
IsOpen(f, m) == fds[f] # NONE /\ fds[f].mode = m

TypeOK ==
    /\ secret \in State /\ fresh \in State
    /\ fds \in [Fd -> [uid : Uid, mode : {"R", "W"}] \cup {NONE}]
    /\ got \in Seq(Byte)
    /\ owners \subseteq Uid
    /\ lu \in {"off", "save", "restore"} /\ at \in 1 .. Len(Fields)
    /\ ds = [k \in FieldNames |-> ds[k]]
    /\ updates \in Nat /\ restarts \in Nat /\ updates + restarts <= MaxReplacements

Init ==
    /\ secret = Cleared /\ fresh = Cleared
    /\ fds = [f \in Fd |-> NONE]
    /\ got = <<>> /\ owners = {}
    /\ lu = "off" /\ at = 1
    /\ ds = [k \in FieldNames |-> NONE]
    /\ updates = 0 /\ restarts = 0

-----------------------------------------------------------------------------
\* A step that returns no bytes to a reader.
Silent == got' = <<>>

\* The driver is in its receive loop, not in a live update.
Serving == lu = "off" /\ UNCHANGED <<lu, at, ds, fresh, updates, restarts>>

\* Mutants of secret_open(): anybody may read; later opens are not counted.
OpenWith(f, u, mode, check, count) ==
    /\ Serving
    /\ fds[f] = NONE
    /\ secret.has_owner => mode = "R" /\ (check => u = secret.secret_owner)
    /\ fds' = [fds EXCEPT ![f] = [uid |-> u, mode |-> mode]]
    /\ secret' = [secret EXCEPT !.has_owner = TRUE,
                                !.secret_owner = IF secret.has_owner THEN @ ELSE u,
                                !.open_counter = IF count \/ ~secret.has_owner
                                                 THEN @ + 1 ELSE @,
                                !.read_fd_opened = @ \/ mode = "R"]
    /\ owners' = owners \cup {secret'.secret_owner}
    /\ Silent

OpenAnybody(f, u, mode) == OpenWith(f, u, mode, FALSE, TRUE)
OpenUncounted(f, u, mode) == OpenWith(f, u, mode, TRUE, FALSE)

\* secret_open() that succeeds.  It refuses (EACCES, ENOSPC) to open for both
\* or neither, a full device for writing, and somebody else's for reading.
secret_open(f, u, mode) ==
    /\ Serving
    /\ fds[f] = NONE
    /\ secret.has_owner => mode = "R" /\ u = secret.secret_owner
    /\ fds' = [fds EXCEPT ![f] = [uid |-> u, mode |-> mode]]
    /\ secret' = [secret EXCEPT !.has_owner = TRUE,
                                !.secret_owner = IF secret.has_owner THEN @ ELSE u,
                                !.open_counter = @ + 1,
                                !.read_fd_opened = @ \/ mode = "R"]
    /\ owners' = owners \cup {secret'.secret_owner}
    /\ Silent

\* Mutant: the reset forgets read_offset.
CloseKeepsCursor(f) ==
    /\ Serving
    /\ fds[f] # NONE
    /\ fds' = [fds EXCEPT ![f] = NONE]
    /\ LET left == IF secret.open_counter > 0 THEN secret.open_counter - 1
                   ELSE secret.open_counter
       IN  IF left = 0 /\ secret.read_fd_opened
           THEN /\ secret' = [Cleared EXCEPT !.read_offset = secret.read_offset]
                /\ owners' = {}
           ELSE secret' = [secret EXCEPT !.open_counter = left] /\ UNCHANGED owners
    /\ Silent

\* secret_close(): the last close after an open for reading clears the secret.
secret_close(f) ==
    /\ Serving
    /\ fds[f] # NONE
    /\ fds' = [fds EXCEPT ![f] = NONE]
    /\ LET left == IF secret.open_counter > 0 THEN secret.open_counter - 1
                   ELSE secret.open_counter
       IN  IF left = 0 /\ secret.read_fd_opened
           THEN secret' = Cleared /\ owners' = {}
           ELSE secret' = [secret EXCEPT !.open_counter = left] /\ UNCHANGED owners
    /\ Silent

\* secret_ioctl(SSGRANT): on any open file, whoever owns the secret by now.
secret_ioctl(f, grantee) ==
    /\ Serving
    /\ fds[f] # NONE
    /\ secret' = [secret EXCEPT !.secret_owner = grantee]
    /\ owners' = owners \cup {grantee}
    /\ UNCHANGED fds /\ Silent

\* The difference of two ints is compared with the unsigned iov_size.
Unsigned(x) == x % WordMod

\* secret_transfer(DEV_GATHER_S): n is iov_size.  A failed copy changes nothing.
gather(f, n) ==
    /\ Serving
    /\ IsOpen(f, "R")
    /\ LET rest == secret.secret_len - secret.read_offset
           bytes == IF Unsigned(rest) < n THEN rest ELSE n
       IN  /\ got' = [i \in 1 .. bytes |-> secret.secret_buf[secret.read_offset + i]]
           /\ secret' = [secret EXCEPT !.read_offset =
                                         IF bytes <= 0 THEN @ ELSE @ + bytes]
    /\ UNCHANGED <<fds, owners>>

\* Mutant: a write is not cut to the room that is left.
ScatterBeyond(f, data) ==
    /\ Serving
    /\ IsOpen(f, "W")
    /\ LET len == secret.secret_len
           bytes == Len(data)
       IN  /\ secret' = [secret EXCEPT
                  !.secret_buf = [i \in 1 .. SECRET_SIZE |->
                                     IF i \in len + 1 .. len + bytes THEN data[i - len]
                                     ELSE @[i]],
                  !.secret_len = len + bytes]
    /\ UNCHANGED <<fds, owners>> /\ Silent

\* secret_transfer(DEV_SCATTER_S): as much as fits; ENOSPC when nothing does.
scatter(f, data) ==
    /\ Serving
    /\ IsOpen(f, "W")
    /\ LET space == SECRET_SIZE - secret.secret_len
           bytes == IF space < Len(data) THEN space ELSE Len(data)
           len == secret.secret_len
       IN  /\ bytes > 0
           /\ secret' = [secret EXCEPT
                  !.secret_buf = [i \in 1 .. SECRET_SIZE |->
                                     IF i \in len + 1 .. len + bytes THEN data[i - len]
                                     ELSE @[i]],
                  !.secret_len = len + bytes]
    /\ UNCHANGED <<fds, owners>> /\ Silent

-----------------------------------------------------------------------------
Updating == UNCHANGED <<fds, owners, restarts>> /\ Silent

\* RS asks for an update; sef_cb_lu_prepare_always_ready() agrees.
lu_prepare ==
    /\ lu = "off" /\ updates + restarts < MaxReplacements
    /\ lu' = "save" /\ at' = 1 /\ updates' = updates + 1
    /\ Updating /\ UNCHANGED <<secret, ds, fresh>>

\* Mutant: a publish without DSF_OVERWRITE; an older value stays.
SaveKeepsOld ==
    /\ lu = "save"
    /\ ds' = [ds EXCEPT ![Fields[at]] = IF @ = NONE THEN secret[Fields[at]] ELSE @]
    /\ IF at < Len(Fields) THEN at' = at + 1 /\ UNCHANGED <<lu, fresh>>
       ELSE at' = 1 /\ lu' = "restore" /\ fresh' = Cleared
    /\ Updating /\ UNCHANGED <<secret, updates>>

\* sef_cb_lu_state_save(): one ds_publish with DSF_OVERWRITE; after the last
\* one the new instance starts.
sef_cb_lu_state_save ==
    /\ lu = "save"
    /\ ds' = [ds EXCEPT ![Fields[at]] = secret[Fields[at]]]
    /\ IF at < Len(Fields) THEN at' = at + 1 /\ UNCHANGED <<lu, fresh>>
       ELSE at' = 1 /\ lu' = "restore" /\ fresh' = Cleared
    /\ Updating /\ UNCHANGED <<secret, updates>>

\* Mutant: the last field is never restored.
RestoreShort ==
    /\ lu = "restore"
    /\ ds[Fields[at]] # NONE
    /\ fresh' = [fresh EXCEPT ![Fields[at]] = ds[Fields[at]]]
    /\ ds' = [ds EXCEPT ![Fields[at]] = NONE]
    /\ IF at + 1 < Len(Fields) THEN at' = at + 1 /\ UNCHANGED <<lu, secret>>
       ELSE at' = 1 /\ lu' = "off" /\ secret' = fresh'
    /\ Updating /\ UNCHANGED updates

\* lu_state_restore() in sef_cb_init(SEF_INIT_LU): one ds_retrieve and the
\* ds_delete after it; the new instance takes over at the end.
lu_state_restore ==
    /\ lu = "restore"
    /\ ds[Fields[at]] # NONE
    /\ fresh' = [fresh EXCEPT ![Fields[at]] = ds[Fields[at]]]
    /\ ds' = [ds EXCEPT ![Fields[at]] = NONE]
    /\ IF at < Len(Fields) THEN at' = at + 1 /\ UNCHANGED <<lu, secret>>
       ELSE at' = 1 /\ lu' = "off" /\ secret' = fresh'
    /\ Updating /\ UNCHANGED updates

\* A publish, retrieve or delete fails: the callback returns the error and the
\* old instance serves on; what is in the store stays there.
lu_fails ==
    /\ lu # "off"
    /\ lu' = "off" /\ at' = 1 /\ fresh' = Cleared
    /\ Updating /\ UNCHANGED <<secret, ds, updates>>

\* A crash, and sef_cb_init(SEF_INIT_RESTART).
restart ==
    /\ lu = "off" /\ updates + restarts < MaxReplacements
    /\ restarts' = restarts + 1
    /\ secret' = Cleared /\ owners' = {}
    /\ \E lost \in SUBSET Opened :
           fds' = [f \in Fd |-> IF f \in lost THEN NONE ELSE fds[f]]
    /\ UNCHANGED <<lu, at, ds, fresh, updates>> /\ Silent

Next ==
    \/ \E f \in Fd :
           \/ \E u \in Uid :
                  \/ secret_ioctl(f, u)
                  \/ \E mode \in {"R", "W"} : secret_open(f, u, mode)
           \/ secret_close(f)
           \/ \E data \in Request : gather(f, Len(data)) \/ scatter(f, data)
    \/ lu_prepare \/ sef_cb_lu_state_save \/ lu_state_restore \/ lu_fails
    \/ restart

Spec == Init /\ [][Next]_vars

-----------------------------------------------------------------------------
\* Reading never passes what was written, nor writing the buffer.  (Past it,
\* the unsigned comparison of secret_transfer() would no longer bound a read.)
CursorInBounds ==
    /\ secret.read_offset <= secret.secret_len
    /\ secret.secret_len <= SECRET_SIZE

\* The counter never exceeds the number of open files, so a secret is never
\* kept too long, and equals it while the driver has not crashed, whoever opened
\* and closed them and however often it was updated, so that no secret is
\* cleared under an open file.
CounterIsExact ==
    /\ secret.open_counter <= Cardinality(Opened)
    /\ restarts = 0 =>
        /\ secret.open_counter = Cardinality(Opened)
        /\ secret.read_fd_opened => Opened # {}
        /\ ~secret.has_owner => Opened = {} /\ secret.secret_len = 0

\* During a live update every field is safe in one place or the other, however
\* many updates failed half way before and left their fields in the store:
\* published since the save began, or in the store or in the new instance.
StoreAgrees ==
    \A i \in DOMAIN Fields :
        /\ lu = "save" /\ i < at => ds[Fields[i]] = secret[Fields[i]]
        /\ lu = "restore" /\ i < at => fresh[Fields[i]] = secret[Fields[i]]
        /\ lu = "restore" /\ i >= at => ds[Fields[i]] = secret[Fields[i]]

\* Whoever holds a file open for reading has owned the present secret: the check
\* of secret_open() outlives grants, closes and live updates, and no file opened
\* for one secret is still open for the next.  (Has owned, not owns: a grant takes
\* nothing from files that are open, and secret_ioctl() and secret_transfer() look
\* at no owner, so who has given the secret away reads on and may grant it again.)
ReadersOwned ==
    \A f \in Fd : restarts = 0 /\ IsOpen(f, "R") => fds[f].uid \in owners

Shown == INSTANCE Vault WITH
    owner <- IF secret.has_owner THEN secret.secret_owner ELSE NONE,
    seen <- secret.read_fd_opened,
    used <- secret.secret_len,
    crashed <- restarts > 0,
    queue <- SubSeq(secret.secret_buf, secret.read_offset + 1, secret.secret_len)

\* The driver implements Vault: its two cursors into one buffer are a queue
\* read once and in order, its counter tells when to clear, and a live update,
\* completed or failed at any of its twenty-one calls to the store, is not seen.
IsVault == Shown!Spec
=============================================================================
