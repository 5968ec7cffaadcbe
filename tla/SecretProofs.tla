---------------------------- MODULE SecretProofs ----------------------------
(***************************************************************************)
(* Proofs about Secret, for any number of files and users, any secrets and *)
(* any number of live updates and crashes.                                 *)
(***************************************************************************)
EXTENDS Secret, TLAPS, FiniteSetTheorems, SequenceTheorems

IndInv == TypeOK /\ CursorInBounds /\ CounterIsExact /\ StoreAgrees /\ ReadersOwned

-----------------------------------------------------------------------------
\* The fields of struct secret_state, one by one.
LEMMA FieldsAre ==
    /\ Len(Fields) = 7 /\ DOMAIN Fields = 1 .. 7
    /\ Fields[1] = "open_counter" /\ Fields[2] = "secret_buf"
    /\ Fields[3] = "secret_len" /\ Fields[4] = "read_offset"
    /\ Fields[5] = "secret_owner" /\ Fields[6] = "has_owner"
    /\ Fields[7] = "read_fd_opened"
BY DEF Fields

LEMMA FieldNamesAre ==
    FieldNames = {"open_counter", "secret_buf", "secret_len", "read_offset",
                  "secret_owner", "has_owner", "read_fd_opened"}
<1>1. \A i \in 1 .. 7 : i = 1 \/ i = 2 \/ i = 3 \/ i = 4 \/ i = 5 \/ i = 6 \/ i = 7
    OBVIOUS
<1>2. FieldNames = {Fields[i] : i \in 1 .. 7}
    BY FieldsAre DEF FieldNames
<1> QED BY <1>1, <1>2, FieldsAre

\* A state of the driver is a function of its fields.
LEMMA StateIsFunction ==
    ASSUME NEW s \in State
    PROVE  s = [k \in FieldNames |-> s[k]]
BY FieldNamesAre DEF State

\* Two states that agree on every field are equal.
LEMMA SameFields ==
    ASSUME NEW s \in State, NEW t \in State,
           \A i \in 1 .. 7 : s[Fields[i]] = t[Fields[i]]
    PROVE  s = t
<1>1. \A k \in FieldNames : s[k] = t[k]
    BY FieldsAre DEF FieldNames
<1> QED BY <1>1, StateIsFunction

\* A mixture of the fields of two states is a state.
LEMMA MixedState ==
    ASSUME NEW s \in State, NEW t \in State, NEW c,
           c = [k \in FieldNames |-> c[k]],
           \A k \in FieldNames : c[k] = s[k] \/ c[k] = t[k]
    PROVE  c \in State
<1>1. c = [open_counter |-> c.open_counter, secret_owner |-> c.secret_owner,
           has_owner |-> c.has_owner, secret_buf |-> c.secret_buf,
           secret_len |-> c.secret_len, read_offset |-> c.read_offset,
           read_fd_opened |-> c.read_fd_opened]
    BY FieldNamesAre
<1>2. /\ c.open_counter = s.open_counter \/ c.open_counter = t.open_counter
      /\ c.secret_owner = s.secret_owner \/ c.secret_owner = t.secret_owner
      /\ c.has_owner = s.has_owner \/ c.has_owner = t.has_owner
      /\ c.secret_buf = s.secret_buf \/ c.secret_buf = t.secret_buf
      /\ c.secret_len = s.secret_len \/ c.secret_len = t.secret_len
      /\ c.read_offset = s.read_offset \/ c.read_offset = t.read_offset
      /\ c.read_fd_opened = s.read_fd_opened \/ c.read_fd_opened = t.read_fd_opened
    BY FieldNamesAre
<1> QED BY <1>1, <1>2 DEF State

\* What secret_open() and secret_close() change of a state.
LEMMA OpenState ==
    ASSUME NEW s \in State, NEW n \in 0 .. Cardinality(Fd), NEW o \in Uid,
           NEW r \in BOOLEAN
    PROVE  [s EXCEPT !.has_owner = TRUE, !.secret_owner = o, !.open_counter = n,
                     !.read_fd_opened = r] \in State
BY DEF State

LEMMA CloseState ==
    ASSUME NEW s \in State, NEW n \in 0 .. Cardinality(Fd)
    PROVE  [s EXCEPT !.open_counter = n] \in State
BY DEF State

LEMMA ClearedType == Cleared \in State
<1>1. Cardinality(Fd) \in Nat
    BY FdAssumption, FS_CardinalityType
<1>2. 0 \in Byte
    BY DEF Byte
<1>3. SECRET_SIZE \in Nat
    BY SizeAssumption DEF WordMod
<1> QED BY <1>1, <1>2, <1>3, UidAssumption DEF Cleared, State

-----------------------------------------------------------------------------
\* What the open files are after one is opened, and after one is closed.
LEMMA OpenedFinite ==
    /\ IsFiniteSet(Opened) /\ Cardinality(Opened) \in Nat
    /\ Cardinality(Opened) <= Cardinality(Fd)
    /\ Cardinality(Opened) = 0 <=> Opened = {}
    /\ Cardinality(Fd) \in Nat
<1>1. Opened \in SUBSET Fd
    BY DEF Opened
<1> QED BY <1>1, FdAssumption, FS_Subset, FS_CardinalityType, FS_EmptySet

LEMMA OpenedGrows ==
    ASSUME TypeOK, NEW f \in Fd, fds[f] = NONE, NEW u \in Uid, NEW m \in {"R", "W"},
           fds' = [fds EXCEPT ![f] = [uid |-> u, mode |-> m]]
    PROVE  /\ Opened' = Opened \cup {f} /\ Opened' # {}
           /\ Cardinality(Opened') = Cardinality(Opened) + 1
<1>1. fds \in [Fd -> [uid : Uid, mode : {"R", "W"}] \cup {NONE}]
    BY DEF TypeOK
<1>2. [uid |-> u, mode |-> m] \in [uid : Uid, mode : {"R", "W"}]
    OBVIOUS
<1>3. [uid |-> u, mode |-> m] # NONE
    BY <1>2, NoneAssumption
<1>4. /\ fds'[f] # NONE
      /\ \A g \in Fd : g # f => fds'[g] = fds[g]
    BY <1>1, <1>3
<1>5. Opened' = Opened \cup {f} /\ f \notin Opened
    BY <1>4 DEF Opened
<1> QED BY <1>5, OpenedFinite, FS_AddElement

LEMMA OpenedShrinks ==
    ASSUME TypeOK, NEW f \in Fd, fds[f] # NONE, fds' = [fds EXCEPT ![f] = NONE]
    PROVE  /\ Opened' = Opened \ {f} /\ f \in Opened
           /\ Cardinality(Opened') = Cardinality(Opened) - 1
           /\ Cardinality(Opened) > 0
<1>1. fds \in [Fd -> [uid : Uid, mode : {"R", "W"}] \cup {NONE}]
    BY DEF TypeOK
<1>2. /\ fds'[f] = NONE
      /\ \A g \in Fd : g # f => fds'[g] = fds[g]
    BY <1>1
<1>3. Opened' = Opened \ {f} /\ f \in Opened
    BY <1>2 DEF Opened
<1>4. Cardinality(Opened') = Cardinality(Opened) - 1
    BY <1>3, OpenedFinite, FS_RemoveElement
<1>5. Cardinality(Opened) # 0
    BY <1>3, OpenedFinite
<1> QED BY <1>3, <1>4, <1>5, OpenedFinite

LEMMA OpenedNextFinite ==
    /\ Cardinality(Opened') \in Nat /\ Cardinality(Opened') <= Cardinality(Fd)
    /\ Cardinality(Opened') = 0 <=> Opened' = {}
<1>1. Opened' \in SUBSET Fd
    BY DEF Opened
<1> QED BY <1>1, FdAssumption, FS_Subset, FS_CardinalityType, FS_EmptySet

LEMMA SizeIsNat == SECRET_SIZE \in Nat
BY SizeAssumption DEF WordMod

-----------------------------------------------------------------------------
LEMMA InitInv == Init => IndInv
<1> SUFFICES ASSUME Init PROVE IndInv
    OBVIOUS
<1> USE DEF Init
<1>1. Opened = {} /\ Cardinality(Opened) = 0
    BY FS_EmptySet DEF Opened
<1>2. TypeOK
    <2>1. fds \in [Fd -> [uid : Uid, mode : {"R", "W"}] \cup {NONE}]
        OBVIOUS
    <2>2. updates \in Nat /\ restarts \in Nat /\ updates + restarts <= MaxReplacements
        BY BoundsAssumption
    <2>3. ds = [k \in FieldNames |-> ds[k]]
        OBVIOUS
    <2> QED BY <2>1, <2>2, <2>3, ClearedType, FieldsAre DEF TypeOK
<1>3. CursorInBounds
    BY SizeIsNat DEF CursorInBounds, Cleared
<1>4. CounterIsExact
    BY <1>1 DEF CounterIsExact, Cleared
<1>5. StoreAgrees
    BY DEF StoreAgrees
<1>6. ReadersOwned
    BY DEF ReadersOwned, IsOpen
<1> QED BY <1>2, <1>3, <1>4, <1>5, <1>6 DEF IndInv

LEMMA OpenInv ==
    ASSUME IndInv, NEW f \in Fd, NEW u \in Uid, NEW m \in {"R", "W"},
           secret_open(f, u, m)
    PROVE  IndInv'
<1> USE DEF secret_open, Serving, Silent
<1>1. /\ Opened' # {} /\ Cardinality(Opened') = Cardinality(Opened) + 1
      /\ Cardinality(Opened) \in Nat /\ Cardinality(Opened) + 1 <= Cardinality(Fd)
    BY OpenedGrows, OpenedFinite, OpenedNextFinite DEF IndInv
<1>2. /\ secret'.open_counter = secret.open_counter + 1
      /\ secret'.has_owner = TRUE
      /\ secret'.secret_owner = IF secret.has_owner THEN secret.secret_owner ELSE u
      /\ secret'.secret_len = secret.secret_len
      /\ secret'.read_offset = secret.read_offset
      /\ secret.secret_owner \in Uid /\ secret.has_owner \in BOOLEAN
      /\ secret'.secret_owner \in Uid /\ secret.open_counter \in Nat
    BY OpenedFinite DEF IndInv, TypeOK, State
<1>3. secret' \in State
    <2> DEFINE r == secret.read_fd_opened \/ m = "R"
    <2>1. r \in BOOLEAN
        OBVIOUS
    <2>2. secret.open_counter <= Cardinality(Opened)
        BY DEF IndInv, CounterIsExact
    <2>3. Cardinality(Fd) \in Nat
        BY OpenedFinite
    <2>4. secret.open_counter + 1 \in 0 .. Cardinality(Fd)
        BY <1>1, <1>2, <2>2, <2>3
    <2>5. secret' = [secret EXCEPT !.has_owner = TRUE,
                        !.secret_owner = secret'.secret_owner,
                        !.open_counter = secret.open_counter + 1,
                        !.read_fd_opened = r]
        BY <1>2
    <2>6. secret \in State
        BY DEF IndInv, TypeOK
    <2> HIDE DEF r, secret_open
    <2>7. secret'.secret_owner \in Uid
        BY <1>2
    <2>8. [secret EXCEPT !.has_owner = TRUE, !.secret_owner = secret'.secret_owner,
                         !.open_counter = secret.open_counter + 1,
                         !.read_fd_opened = r] \in State
        BY ONLY <2>1, <2>4, <2>6, <2>7, OpenState, Zenon
    <2> QED BY ONLY <2>5, <2>8, Zenon
<1>4. TypeOK'
    <2>1. fds' \in [Fd -> [uid : Uid, mode : {"R", "W"}] \cup {NONE}]
        BY DEF IndInv, TypeOK
    <2>2. owners' \subseteq Uid
        BY <1>2 DEF IndInv, TypeOK
    <2>3. got' \in Seq(Byte)
        OBVIOUS
    <2> QED BY <1>3, <2>1, <2>2, <2>3 DEF IndInv, TypeOK
<1>5. CursorInBounds'
    BY <1>2 DEF IndInv, CursorInBounds
<1>6. CounterIsExact'
    BY <1>1, <1>2 DEF IndInv, CounterIsExact
<1>7. StoreAgrees'
    BY DEF StoreAgrees
<1>8. ReadersOwned'
    <2> SUFFICES ASSUME NEW g \in Fd, restarts' = 0, IsOpen(g, "R")'
                 PROVE  fds'[g].uid \in owners'
        BY DEF ReadersOwned
    <2>1. CASE g = f
        BY <2>1, <1>2 DEF IndInv, TypeOK
    <2>2. CASE g # f
        BY <2>2 DEF IndInv, TypeOK, ReadersOwned, IsOpen
    <2> QED BY <2>1, <2>2
<1> QED BY <1>4, <1>5, <1>6, <1>7, <1>8 DEF IndInv

LEMMA CloseInv ==
    ASSUME IndInv, NEW f \in Fd, secret_close(f)
    PROVE  IndInv'
<1> DEFINE left == IF secret.open_counter > 0 THEN secret.open_counter - 1
                   ELSE secret.open_counter
           clears == left = 0 /\ secret.read_fd_opened
<1>1. /\ Opened' = Opened \ {f} /\ Cardinality(Opened') = Cardinality(Opened) - 1
      /\ Cardinality(Opened) > 0 /\ Cardinality(Opened) \in Nat
      /\ Cardinality(Opened') \in Nat /\ (Cardinality(Opened') = 0 <=> Opened' = {})
      /\ Cardinality(Opened') <= Cardinality(Fd) /\ Cardinality(Fd) \in Nat
    BY OpenedShrinks, OpenedFinite, OpenedNextFinite DEF IndInv, secret_close
<1>2. /\ secret.open_counter \in Nat /\ secret.open_counter <= Cardinality(Opened)
      /\ left \in 0 .. Cardinality(Opened')
      /\ restarts = 0 => left = Cardinality(Opened')
    <2>1. secret.open_counter \in Nat
        BY OpenedFinite DEF IndInv, TypeOK, State
    <2>2. /\ secret.open_counter <= Cardinality(Opened)
          /\ restarts = 0 => secret.open_counter = Cardinality(Opened)
        BY DEF IndInv, CounterIsExact
    <2> QED BY <1>1, <2>1, <2>2
<1>3. IF clears THEN secret' = Cleared /\ owners' = {}
      ELSE secret' = [secret EXCEPT !.open_counter = left] /\ owners' = owners
    BY DEF secret_close
<1> HIDE DEF left, clears
<1>4. secret' \in State
    <2>1. left \in 0 .. Cardinality(Fd) /\ secret \in State
        BY <1>1, <1>2 DEF IndInv, TypeOK
    <2>2. [secret EXCEPT !.open_counter = left] \in State
        BY ONLY <2>1, CloseState, Zenon
    <2> QED BY ONLY <1>3, <2>2, ClearedType, Zenon
<1> USE DEF secret_close, Serving, Silent
<1>5. TypeOK'
    <2>1. fds' \in [Fd -> [uid : Uid, mode : {"R", "W"}] \cup {NONE}]
        BY DEF IndInv, TypeOK
    <2>2. owners' \subseteq Uid
        BY <1>3 DEF IndInv, TypeOK
    <2>3. got' \in Seq(Byte)
        OBVIOUS
    <2> QED BY <1>4, <2>1, <2>2, <2>3 DEF IndInv, TypeOK
<1>6. CASE clears
    <2>1. /\ secret'.open_counter = 0 /\ secret'.has_owner = FALSE
          /\ secret'.secret_len = 0 /\ secret'.read_offset = 0
          /\ secret'.read_fd_opened = FALSE /\ owners' = {}
        BY <1>3, <1>6 DEF Cleared
    <2>2. restarts = 0 => Opened' = {} /\ Cardinality(Opened') = 0
        BY <1>1, <1>2, <1>6 DEF clears
    <2>3. CursorInBounds'
        BY <2>1, SizeIsNat DEF CursorInBounds
    <2>4. CounterIsExact'
        BY <2>1, <2>2, <1>1 DEF CounterIsExact
    <2>5. ReadersOwned'
        BY <2>2 DEF ReadersOwned, IsOpen, Opened
    <2>6. StoreAgrees'
        BY DEF StoreAgrees
    <2> QED BY <1>5, <2>3, <2>4, <2>5, <2>6 DEF IndInv
<1>7. CASE ~clears
    <2>1. /\ secret'.open_counter = left /\ secret'.has_owner = secret.has_owner
          /\ secret'.secret_len = secret.secret_len
          /\ secret'.read_offset = secret.read_offset
          /\ secret'.read_fd_opened = secret.read_fd_opened /\ owners' = owners
        BY <1>3, <1>7 DEF IndInv, TypeOK, State
    <2>2. restarts = 0 /\ secret.read_fd_opened => Opened' # {}
        BY <1>1, <1>2, <1>7 DEF clears
    <2>3. CursorInBounds'
        BY <2>1 DEF IndInv, CursorInBounds
    <2>4. CounterIsExact'
        BY <2>1, <2>2, <1>1, <1>2 DEF IndInv, CounterIsExact
    <2>5. ReadersOwned'
        <3>1. \A g \in Fd : fds'[g] # NONE => fds'[g] = fds[g]
            BY DEF IndInv, TypeOK
        <3> QED BY <2>1, <3>1 DEF IndInv, ReadersOwned, IsOpen
    <2>6. StoreAgrees'
        BY DEF StoreAgrees
    <2> QED BY <1>5, <2>3, <2>4, <2>5, <2>6 DEF IndInv
<1> QED BY <1>6, <1>7

LEMMA IoctlInv ==
    ASSUME IndInv, NEW f \in Fd, NEW u \in Uid, secret_ioctl(f, u)
    PROVE  IndInv'
<1> USE DEF secret_ioctl, Serving, Silent
<1>1. /\ secret' \in State
      /\ secret'.open_counter = secret.open_counter
      /\ secret'.has_owner = secret.has_owner
      /\ secret'.secret_len = secret.secret_len
      /\ secret'.read_offset = secret.read_offset
      /\ secret'.read_fd_opened = secret.read_fd_opened
    BY DEF IndInv, TypeOK, State
<1>2. TypeOK'
    <2>1. got' \in Seq(Byte)
        OBVIOUS
    <2> QED BY <1>1, <2>1 DEF IndInv, TypeOK
<1>3. CursorInBounds' /\ CounterIsExact'
    BY <1>1 DEF IndInv, CursorInBounds, CounterIsExact, Opened
<1>4. StoreAgrees' /\ ReadersOwned'
    BY DEF IndInv, StoreAgrees, ReadersOwned, IsOpen
<1> QED BY <1>2, <1>3, <1>4 DEF IndInv

\* What gather() copies: what is left of the secret, or as much as was asked for.
\* The comparison with the unsigned size is exact while the cursors are in order.
LEMMA GatherStep ==
    ASSUME IndInv, NEW f \in Fd, NEW n \in Nat, gather(f, n)
    PROVE  \E bytes \in Nat :
               /\ bytes = IF secret.secret_len - secret.read_offset < n
                          THEN secret.secret_len - secret.read_offset ELSE n
               /\ secret.read_offset + bytes <= secret.secret_len
               /\ got' = [i \in 1 .. bytes |-> secret.secret_buf[secret.read_offset + i]]
               /\ secret' = [secret EXCEPT !.read_offset = secret.read_offset + bytes]
<1> DEFINE rest == secret.secret_len - secret.read_offset
           bytes == IF rest < n THEN rest ELSE n
<1>1. /\ secret.secret_len \in Nat /\ secret.read_offset \in Nat
      /\ secret.read_offset <= secret.secret_len /\ secret.secret_len <= SECRET_SIZE
      /\ secret \in State
    BY SizeIsNat DEF IndInv, TypeOK, State, CursorInBounds
<1>2. rest \in Nat /\ rest < 65536
    <2>1. SECRET_SIZE \in Nat /\ SECRET_SIZE < 65536
        BY SizeAssumption DEF WordMod
    <2>2. rest \in Nat /\ rest <= secret.secret_len
        BY <1>1
    <2> QED BY ONLY <1>1, <2>1, <2>2
<1> HIDE DEF rest
<1>3. Unsigned(rest) = rest
    BY <1>2 DEF Unsigned, WordMod
<1>4. bytes \in Nat /\ bytes <= rest
    BY <1>2
<1>5. /\ got' = [i \in 1 .. bytes |-> secret.secret_buf[secret.read_offset + i]]
      /\ secret' = [secret EXCEPT !.read_offset =
                                     IF bytes <= 0 THEN secret.read_offset
                                     ELSE secret.read_offset + bytes]
    <2> DEFINE taken == IF Unsigned(rest) < n THEN rest ELSE n
    <2>1. /\ got' = [i \in 1 .. taken |-> secret.secret_buf[secret.read_offset + i]]
          /\ secret' = [secret EXCEPT !.read_offset =
                                         IF taken <= 0 THEN secret.read_offset
                                         ELSE secret.read_offset + taken]
        BY Zenon DEF gather, rest
    <2>2. taken = bytes
        BY <1>3
    <2> HIDE DEF taken, bytes
    <2> QED BY <2>1, <2>2
<1> HIDE DEF bytes
<1>6. (IF bytes <= 0 THEN secret.read_offset ELSE secret.read_offset + bytes)
        = secret.read_offset + bytes
    BY <1>1, <1>4
<1>7. secret' = [secret EXCEPT !.read_offset = secret.read_offset + bytes]
    BY <1>5, <1>6
<1>8. secret.read_offset + bytes <= secret.secret_len
    BY <1>1, <1>4 DEF rest
<1> QED BY <1>4, <1>5, <1>7, <1>8 DEF bytes, rest

LEMMA GatherInv ==
    ASSUME IndInv, NEW f \in Fd, NEW n \in Nat, gather(f, n)
    PROVE  IndInv'
<1>1. PICK bytes \in Nat :
          /\ secret.read_offset + bytes <= secret.secret_len
          /\ got' = [i \in 1 .. bytes |-> secret.secret_buf[secret.read_offset + i]]
          /\ secret' = [secret EXCEPT !.read_offset = secret.read_offset + bytes]
    BY GatherStep
<1>2. /\ secret.secret_len \in 0 .. SECRET_SIZE /\ secret.read_offset \in Nat
      /\ secret.secret_buf \in [1 .. SECRET_SIZE -> Byte]
      /\ secret \in State /\ SECRET_SIZE \in Nat
    BY SizeIsNat DEF IndInv, TypeOK, State
<1>3. secret.read_offset + bytes \in 0 .. SECRET_SIZE
    BY <1>1, <1>2
<1>4. /\ secret' \in State
      /\ secret'.open_counter = secret.open_counter
      /\ secret'.has_owner = secret.has_owner
      /\ secret'.secret_len = secret.secret_len
      /\ secret'.read_offset = secret.read_offset + bytes
      /\ secret'.read_fd_opened = secret.read_fd_opened
    BY <1>1, <1>2, <1>3 DEF State
<1>5. \A i \in 1 .. bytes : secret.secret_buf[secret.read_offset + i] \in Byte
    <2> SUFFICES ASSUME NEW i \in 1 .. bytes
                 PROVE  secret.secret_buf[secret.read_offset + i] \in Byte
        OBVIOUS
    <2>1. secret.read_offset + i \in 1 .. SECRET_SIZE
        BY <1>1, <1>2
    <2> QED BY <2>1, <1>2
<1>6. got' \in Seq(Byte)
    BY <1>1, <1>5
<1>7. UNCHANGED <<fds, owners, lu, at, ds, fresh, updates, restarts>> /\ lu = "off"
    BY DEF gather, Serving
<1>8. TypeOK'
    BY <1>4, <1>6, <1>7 DEF IndInv, TypeOK
<1>9. CursorInBounds' /\ CounterIsExact'
    BY <1>1, <1>4, <1>7 DEF IndInv, CursorInBounds, CounterIsExact, Opened
<1>10. StoreAgrees' /\ ReadersOwned'
    BY <1>7 DEF IndInv, StoreAgrees, ReadersOwned, IsOpen
<1> QED BY <1>8, <1>9, <1>10 DEF IndInv

\* What scatter() copies: the data, or as much of it as fits.
LEMMA ScatterStep ==
    ASSUME IndInv, NEW f \in Fd, NEW data \in Request, scatter(f, data)
    PROVE  \E bytes \in Nat \ {0}, buf \in [1 .. SECRET_SIZE -> Byte] :
               /\ bytes = IF SECRET_SIZE - secret.secret_len < Len(data)
                          THEN SECRET_SIZE - secret.secret_len ELSE Len(data)
               /\ secret.secret_len + bytes <= SECRET_SIZE /\ bytes <= Len(data)
               /\ \A i \in 1 .. SECRET_SIZE :
                      buf[i] = IF i \in secret.secret_len + 1 .. secret.secret_len + bytes
                               THEN data[i - secret.secret_len] ELSE secret.secret_buf[i]
               /\ secret' = [secret EXCEPT !.secret_buf = buf,
                                           !.secret_len = secret.secret_len + bytes]
<1> DEFINE len == secret.secret_len
           space == SECRET_SIZE - len
           bytes == IF space < Len(data) THEN space ELSE Len(data)
           buf == [i \in 1 .. SECRET_SIZE |->
                      IF i \in len + 1 .. len + bytes THEN data[i - len]
                      ELSE secret.secret_buf[i]]
<1>1. /\ len \in 0 .. SECRET_SIZE /\ SECRET_SIZE \in Nat
      /\ secret.secret_buf \in [1 .. SECRET_SIZE -> Byte]
    BY SizeIsNat DEF IndInv, TypeOK, State
<1>2. data \in Seq(Nat) /\ Len(data) \in Nat
    BY RequestAssumption
<1>3. /\ bytes > 0
      /\ secret' = [secret EXCEPT !.secret_buf = buf, !.secret_len = len + bytes]
    BY DEF scatter
<1>4. bytes \in Nat \ {0} /\ len + bytes <= SECRET_SIZE /\ bytes <= Len(data)
    BY <1>1, <1>2, <1>3
<1>5. \A i \in len + 1 .. len + bytes : data[i - len] \in Byte
    <2> SUFFICES ASSUME NEW i \in len + 1 .. len + bytes
                 PROVE  data[i - len] \in Byte
        OBVIOUS
    <2> HIDE DEF bytes, len
    <2>1. i - len \in 1 .. Len(data)
        BY <1>1, <1>2, <1>4
    <2>2. i - len \in DOMAIN data
        BY <1>2, <2>1
    <2>3. data[i - len] \in {data[j] : j \in DOMAIN data}
        BY <2>2
    <2> QED BY <2>3 DEF Byte
<1>6. buf \in [1 .. SECRET_SIZE -> Byte]
    <2> HIDE DEF bytes, len
    <2> QED BY <1>1, <1>5
<1>7. \A i \in 1 .. SECRET_SIZE :
          buf[i] = IF i \in len + 1 .. len + bytes THEN data[i - len]
                   ELSE secret.secret_buf[i]
    OBVIOUS
<1> HIDE DEF buf
<1> QED BY <1>3, <1>4, <1>6, <1>7

LEMMA ScatterInv ==
    ASSUME IndInv, NEW f \in Fd, NEW data \in Request, scatter(f, data)
    PROVE  IndInv'
<1>1. PICK bytes \in Nat \ {0}, buf \in [1 .. SECRET_SIZE -> Byte] :
          /\ secret.secret_len + bytes <= SECRET_SIZE
          /\ secret' = [secret EXCEPT !.secret_buf = buf,
                                      !.secret_len = secret.secret_len + bytes]
    BY ScatterStep
<1>2. /\ secret.secret_len \in Nat /\ secret.read_offset \in Nat
      /\ secret \in State /\ SECRET_SIZE \in Nat
    BY SizeIsNat DEF IndInv, TypeOK, State
<1>3. secret.secret_len + bytes \in 0 .. SECRET_SIZE
    BY <1>1, <1>2
<1>4. /\ secret' \in State
      /\ secret'.open_counter = secret.open_counter
      /\ secret'.has_owner = secret.has_owner
      /\ secret'.secret_len = secret.secret_len + bytes
      /\ secret'.read_offset = secret.read_offset
      /\ secret'.read_fd_opened = secret.read_fd_opened
    BY <1>1, <1>2, <1>3 DEF State
<1>5. UNCHANGED <<fds, owners, lu, at, ds, fresh, updates, restarts>> /\ lu = "off"
    BY DEF scatter, Serving
<1>6. f \in Opened
    BY DEF scatter, IsOpen, Opened
<1>7. TypeOK'
    <2>1. got' \in Seq(Byte)
        BY DEF scatter, Silent
    <2> QED BY <2>1, <1>4, <1>5 DEF IndInv, TypeOK
<1>8. CursorInBounds'
    BY <1>1, <1>2, <1>4 DEF IndInv, CursorInBounds
<1>9. CounterIsExact'
    BY <1>4, <1>5, <1>6 DEF IndInv, CounterIsExact, Opened
<1>10. StoreAgrees' /\ ReadersOwned'
    BY <1>5 DEF IndInv, StoreAgrees, ReadersOwned, IsOpen
<1> QED BY <1>7, <1>8, <1>9, <1>10 DEF IndInv

-----------------------------------------------------------------------------
\* A step of a live update that leaves the running state alone.
LEMMA UpdateFrame ==
    ASSUME IndInv, secret' = secret, Updating
    PROVE  CursorInBounds' /\ CounterIsExact' /\ ReadersOwned' /\ got' \in Seq(Byte)
<1>1. CursorInBounds'
    BY DEF IndInv, CursorInBounds
<1>2. CounterIsExact'
    BY DEF IndInv, CounterIsExact, Opened, Updating
<1>3. ReadersOwned'
    BY DEF IndInv, ReadersOwned, IsOpen, Updating
<1>4. got' \in Seq(Byte)
    BY DEF Updating, Silent
<1> QED BY <1>1, <1>2, <1>3, <1>4

LEMMA PrepareInv == ASSUME IndInv, lu_prepare PROVE IndInv'
<1>1. /\ lu = "off" /\ lu' = "save" /\ at' = 1 /\ updates' = updates + 1
      /\ updates + restarts < MaxReplacements
      /\ Updating /\ UNCHANGED <<secret, ds, fresh>>
    BY DEF lu_prepare
<1>2. UNCHANGED <<fds, owners, restarts>>
    BY <1>1 DEF Updating
<1>3. CursorInBounds' /\ CounterIsExact' /\ ReadersOwned' /\ got' \in Seq(Byte)
    BY <1>1, UpdateFrame
<1>4. updates' \in Nat /\ restarts' \in Nat /\ updates' + restarts' <= MaxReplacements
    BY <1>1, <1>2, BoundsAssumption DEF IndInv, TypeOK
<1>5. TypeOK'
    BY <1>1, <1>2, <1>3, <1>4, FieldsAre DEF IndInv, TypeOK
<1>6. StoreAgrees'
    BY <1>1, FieldsAre DEF StoreAgrees
<1> QED BY <1>3, <1>5, <1>6 DEF IndInv

LEMMA SaveInv == ASSUME IndInv, sef_cb_lu_state_save PROVE IndInv'
<1>1. /\ lu = "save" /\ Updating /\ UNCHANGED <<secret, updates>>
      /\ ds' = [ds EXCEPT ![Fields[at]] = secret[Fields[at]]]
      /\ IF at < 7 THEN at' = at + 1 /\ UNCHANGED <<lu, fresh>>
         ELSE at' = 1 /\ lu' = "restore" /\ fresh' = Cleared
    BY FieldsAre DEF sef_cb_lu_state_save
<1>2. UNCHANGED <<fds, owners, restarts>>
    BY <1>1 DEF Updating
<1>3. CursorInBounds' /\ CounterIsExact' /\ ReadersOwned' /\ got' \in Seq(Byte)
    BY <1>1, UpdateFrame
<1>4. at \in 1 .. 7 /\ ds = [k \in FieldNames |-> ds[k]]
    BY FieldsAre DEF IndInv, TypeOK
<1>5. Fields[at] \in FieldNames
    BY <1>4, FieldsAre DEF FieldNames
<1>6. /\ ds' = [k \in FieldNames |-> ds'[k]]
      /\ ds'[Fields[at]] = secret[Fields[at]]
      /\ \A k \in FieldNames : k # Fields[at] => ds'[k] = ds[k]
    BY <1>1, <1>4, <1>5
<1>7. \A i \in 1 .. 7 : i <= at => ds'[Fields[i]] = secret[Fields[i]]
    <2> SUFFICES ASSUME NEW i \in 1 .. 7, i <= at
                 PROVE  ds'[Fields[i]] = secret[Fields[i]]
        OBVIOUS
    <2>1. Fields[i] \in FieldNames
        BY FieldsAre DEF FieldNames
    <2>2. CASE Fields[i] = Fields[at]
        BY <1>6, <2>2
    <2>3. CASE Fields[i] # Fields[at]
        <3>1. i < at
            BY <2>3, <1>4
        <3>2. ds[Fields[i]] = secret[Fields[i]]
            BY <1>1, <3>1, FieldsAre DEF IndInv, StoreAgrees
        <3> QED BY <1>6, <2>1, <2>3, <3>2
    <2> QED BY <2>2, <2>3
<1>8. TypeOK'
    <2>1. at' \in 1 .. 7 /\ lu' \in {"save", "restore"}
        BY <1>1, <1>4
    <2>2. fresh' \in State
        BY <1>1, ClearedType DEF IndInv, TypeOK
    <2> QED BY <1>1, <1>2, <1>3, <1>6, <2>1, <2>2, FieldsAre DEF IndInv, TypeOK
<1>9. StoreAgrees'
    <2> SUFFICES ASSUME NEW i \in 1 .. 7
                 PROVE  /\ lu' = "save" /\ i < at' => ds'[Fields[i]] = secret[Fields[i]]
                        /\ lu' = "restore" /\ i < at'
                               => fresh'[Fields[i]] = secret[Fields[i]]
                        /\ lu' = "restore" /\ i >= at'
                               => ds'[Fields[i]] = secret[Fields[i]]
        BY <1>1, FieldsAre DEF StoreAgrees
    <2>1. CASE at < 7
        <3>1. lu' = "save" /\ (i < at' => i <= at)
            BY <1>1, <1>4, <2>1
        <3> QED BY <1>7, <3>1
    <2>2. CASE ~(at < 7)
        <3>1. lu' = "restore" /\ ~(i < at') /\ i <= at
            BY <1>1, <1>4, <2>2
        <3> QED BY <1>7, <3>1
    <2> QED BY <2>1, <2>2
<1> QED BY <1>3, <1>8, <1>9 DEF IndInv

\* A step of the restore copies one field, unharmed; the last one makes the new
\* instance the running one, with exactly the state of the old.
LEMMA RestoreStep ==
    ASSUME IndInv, lu_state_restore
    PROVE  /\ secret' = secret /\ fresh' \in State /\ at \in 1 .. 7
           /\ \A i \in 1 .. 7 : i <= at => fresh'[Fields[i]] = secret[Fields[i]]
<1>1. /\ lu = "restore"
      /\ fresh' = [fresh EXCEPT ![Fields[at]] = ds[Fields[at]]]
      /\ IF at < 7 THEN UNCHANGED secret ELSE secret' = fresh'
    BY FieldsAre DEF lu_state_restore
<1>2. at \in 1 .. 7 /\ secret \in State /\ fresh \in State
    BY FieldsAre DEF IndInv, TypeOK
<1>3. ds[Fields[at]] = secret[Fields[at]]
    BY <1>1, <1>2, FieldsAre DEF IndInv, StoreAgrees
<1>4. fresh' = [fresh EXCEPT ![Fields[at]] = secret[Fields[at]]]
    BY <1>1, <1>3
<1>5. /\ fresh' \in State /\ fresh'[Fields[at]] = secret[Fields[at]]
      /\ \A j \in 1 .. 7 : j # at => fresh'[Fields[j]] = fresh[Fields[j]]
    <2>1. fresh = [k \in FieldNames |-> fresh[k]]
        BY <1>2, StateIsFunction
    <2>2. \A i \in 1 .. 7 : Fields[i] \in FieldNames
        BY FieldsAre DEF FieldNames
    <2>3. /\ fresh' = [k \in FieldNames |-> fresh'[k]]
          /\ fresh'[Fields[at]] = secret[Fields[at]]
          /\ \A k \in FieldNames : k # Fields[at] => fresh'[k] = fresh[k]
        BY <1>2, <1>4, <2>1, <2>2
    <2>4. fresh' \in State
        BY <1>2, <2>3, MixedState
    <2>5. \A j \in 1 .. 7 : j # at => Fields[j] # Fields[at]
        BY <1>2, FieldsAre
    <2> QED BY <2>2, <2>3, <2>4, <2>5
<1>6. \A i \in 1 .. 7 : i < at => fresh[Fields[i]] = secret[Fields[i]]
    BY <1>1, FieldsAre DEF IndInv, StoreAgrees
<1>7. \A i \in 1 .. 7 : i <= at => fresh'[Fields[i]] = secret[Fields[i]]
    BY <1>2, <1>5, <1>6
<1>8. secret' = secret
    <2>1. CASE at < 7
        BY <1>1, <2>1
    <2>2. CASE ~(at < 7)
        <3>1. \A i \in 1 .. 7 : fresh'[Fields[i]] = secret[Fields[i]]
            BY <1>2, <1>7, <2>2
        <3>2. fresh' = secret
            BY <1>2, <1>5, <3>1, SameFields
        <3> QED BY <1>1, <2>2, <3>2
    <2> QED BY <2>1, <2>2
<1> QED BY <1>2, <1>5, <1>7, <1>8

LEMMA RestoreInv == ASSUME IndInv, lu_state_restore PROVE IndInv'
<1>1. /\ lu = "restore" /\ Updating /\ UNCHANGED updates
      /\ ds' = [ds EXCEPT ![Fields[at]] = NONE]
      /\ IF at < 7 THEN at' = at + 1 /\ UNCHANGED lu ELSE at' = 1 /\ lu' = "off"
    BY FieldsAre DEF lu_state_restore
<1>2. UNCHANGED <<fds, owners, restarts>>
    BY <1>1 DEF Updating
<1>3. /\ secret' = secret /\ fresh' \in State /\ at \in 1 .. 7
      /\ \A i \in 1 .. 7 : i <= at => fresh'[Fields[i]] = secret[Fields[i]]
    BY RestoreStep
<1>4. CursorInBounds' /\ CounterIsExact' /\ ReadersOwned' /\ got' \in Seq(Byte)
    BY <1>1, <1>3, UpdateFrame
<1>5. /\ ds' = [k \in FieldNames |-> ds'[k]]
      /\ \A k \in FieldNames : k # Fields[at] => ds'[k] = ds[k]
    <2>1. ds = [k \in FieldNames |-> ds[k]]
        BY DEF IndInv, TypeOK
    <2> QED BY <1>1, <2>1
<1>6. TypeOK'
    <2>1. at' \in 1 .. 7 /\ lu' \in {"restore", "off"}
        BY <1>1, <1>3
    <2> QED BY <1>1, <1>2, <1>3, <1>4, <1>5, <2>1, FieldsAre DEF IndInv, TypeOK
<1>7. StoreAgrees'
    <2>1. CASE at < 7
        <3>1. lu' = "restore" /\ at' = at + 1
            BY <1>1, <2>1
        <3>2. \A i \in 1 .. 7 : i < at' => fresh'[Fields[i]] = secret[Fields[i]]
            BY <1>3, <3>1
        <3>3. \A i \in 1 .. 7 : i >= at' => ds'[Fields[i]] = secret[Fields[i]]
            <4> SUFFICES ASSUME NEW i \in 1 .. 7, i >= at'
                         PROVE  ds'[Fields[i]] = secret[Fields[i]]
                OBVIOUS
            <4>1. i > at
                BY <1>3, <3>1
            <4>2. Fields[i] # Fields[at] /\ Fields[i] \in FieldNames
                BY <4>1, <1>3, FieldsAre DEF FieldNames
            <4>3. ds[Fields[i]] = secret[Fields[i]]
                BY <1>1, <1>3, <4>1, FieldsAre DEF IndInv, StoreAgrees
            <4> QED BY <1>5, <4>2, <4>3
        <3> QED BY <1>3, <3>1, <3>2, <3>3, FieldsAre DEF StoreAgrees
    <2>2. CASE ~(at < 7)
        BY <1>1, <2>2 DEF StoreAgrees
    <2> QED BY <2>1, <2>2
<1> QED BY <1>4, <1>6, <1>7 DEF IndInv

LEMMA FailInv == ASSUME IndInv, lu_fails PROVE IndInv'
<1>1. /\ lu' = "off" /\ at' = 1 /\ fresh' = Cleared
      /\ Updating /\ UNCHANGED <<secret, ds, updates>>
    BY DEF lu_fails
<1>2. UNCHANGED <<fds, owners, restarts>>
    BY <1>1 DEF Updating
<1>3. CursorInBounds' /\ CounterIsExact' /\ ReadersOwned' /\ got' \in Seq(Byte)
    BY <1>1, UpdateFrame
<1>4. TypeOK'
    BY <1>1, <1>2, <1>3, ClearedType, FieldsAre DEF IndInv, TypeOK
<1>5. StoreAgrees'
    BY <1>1 DEF StoreAgrees
<1> QED BY <1>3, <1>4, <1>5 DEF IndInv

LEMMA RestartInv == ASSUME IndInv, restart PROVE IndInv'
<1>1. /\ lu = "off" /\ restarts' = restarts + 1 /\ updates + restarts < MaxReplacements
      /\ secret' = Cleared /\ owners' = {} /\ got' = <<>>
      /\ UNCHANGED <<lu, at, ds, fresh, updates>>
    BY DEF restart, Silent
<1>2. PICK lost \in SUBSET Opened :
          fds' = [f \in Fd |-> IF f \in lost THEN NONE ELSE fds[f]]
    BY DEF restart
<1>3. updates' \in Nat /\ restarts' \in Nat /\ updates' + restarts' <= MaxReplacements
    BY <1>1, BoundsAssumption DEF IndInv, TypeOK
<1>4. fds' \in [Fd -> [uid : Uid, mode : {"R", "W"}] \cup {NONE}]
    BY <1>2 DEF IndInv, TypeOK
<1>5. /\ secret'.open_counter = 0 /\ secret'.read_offset = 0 /\ secret'.secret_len = 0
    BY <1>1 DEF Cleared
<1>6. restarts' # 0
    BY <1>1 DEF IndInv, TypeOK
<1>7. TypeOK'
    <2>1. got' \in Seq(Byte)
        BY <1>1
    <2> QED BY <2>1, <1>1, <1>3, <1>4, ClearedType DEF IndInv, TypeOK
<1>8. CursorInBounds'
    BY <1>5, SizeIsNat DEF CursorInBounds
<1>9. CounterIsExact'
    BY <1>5, <1>6, OpenedNextFinite DEF CounterIsExact
<1>10. StoreAgrees'
    BY <1>1 DEF StoreAgrees
<1>11. ReadersOwned'
    BY <1>6 DEF ReadersOwned
<1> QED BY <1>7, <1>8, <1>9, <1>10, <1>11 DEF IndInv

LEMMA StutterInv == ASSUME IndInv, UNCHANGED vars PROVE IndInv'
<1> USE DEF vars
<1>1. TypeOK'
    BY DEF IndInv, TypeOK
<1>2. CursorInBounds' /\ CounterIsExact'
    BY DEF IndInv, CursorInBounds, CounterIsExact, Opened
<1>3. StoreAgrees' /\ ReadersOwned'
    BY DEF IndInv, StoreAgrees, ReadersOwned, IsOpen
<1> QED BY <1>1, <1>2, <1>3 DEF IndInv

\* What every step of the driver preserves.
THEOREM Invariance == Spec => []IndInv
<1>1. Init => IndInv
    BY InitInv
<1>2. IndInv /\ [Next]_vars => IndInv'
    <2> SUFFICES ASSUME IndInv, [Next]_vars PROVE IndInv'
        OBVIOUS
    <2>1. ASSUME NEW f \in Fd, NEW u \in Uid, secret_ioctl(f, u) PROVE IndInv'
        BY <2>1, IoctlInv
    <2>2. ASSUME NEW f \in Fd, NEW u \in Uid, NEW mode \in {"R", "W"},
                 secret_open(f, u, mode)
          PROVE  IndInv'
        BY <2>2, OpenInv
    <2>3. ASSUME NEW f \in Fd, secret_close(f) PROVE IndInv'
        BY <2>3, CloseInv
    <2>4. ASSUME NEW f \in Fd, NEW data \in Request, gather(f, Len(data)) PROVE IndInv'
        <3>1. Len(data) \in Nat
            BY RequestAssumption
        <3> QED BY <2>4, <3>1, GatherInv
    <2>5. ASSUME NEW f \in Fd, NEW data \in Request, scatter(f, data) PROVE IndInv'
        BY <2>5, ScatterInv
    <2> QED BY <2>1, <2>2, <2>3, <2>4, <2>5, PrepareInv, SaveInv, RestoreInv, FailInv,
               RestartInv, StutterInv DEF Next
<1> QED BY <1>1, <1>2, PTL DEF Spec

-----------------------------------------------------------------------------
\* The variables of the driver keep their types: the counter of open files never
\* leaves the range of files there are, the cursors never leave the buffer.
THEOREM TypeCorrect == Spec => []TypeOK
BY Invariance, PTL DEF IndInv

\* Reading never passes what was written, nor writing the buffer.
THEOREM CursorsStayInBounds == Spec => []CursorInBounds
BY Invariance, PTL DEF IndInv

\* The counter that decides when the secret is cleared is the number of open
\* files until the first crash, and never more than that.
THEOREM CounterCountsFiles == Spec => []CounterIsExact
BY Invariance, PTL DEF IndInv

\* No field is lost or stale in a live update, whatever failed before it.
THEOREM UpdateLosesNothing == Spec => []StoreAgrees
BY Invariance, PTL DEF IndInv

\* A file open for reading belongs to somebody who has owned the present secret.
THEOREM ReadersHaveOwned == Spec => []ReadersOwned
BY Invariance, PTL DEF IndInv

-----------------------------------------------------------------------------
(***************************************************************************)
(* The refinement: the bytes between the two cursors are Vault's queue.    *)
(***************************************************************************)
Queued == SubSeq(secret.secret_buf, secret.read_offset + 1, secret.secret_len)

QueuedBytes ==
    /\ Queued \in Seq(Byte)
    /\ Len(Queued) = secret.secret_len - secret.read_offset
    /\ \A i \in 1 .. secret.secret_len - secret.read_offset :
           Queued[i] = secret.secret_buf[secret.read_offset + i]

LEMMA QueuedIs == IndInv => QueuedBytes
<1> SUFFICES ASSUME IndInv PROVE QueuedBytes
    OBVIOUS
<1>1. /\ secret.secret_len \in 0 .. SECRET_SIZE
      /\ secret.read_offset \in 0 .. secret.secret_len
      /\ secret.secret_buf \in [1 .. SECRET_SIZE -> Byte] /\ SECRET_SIZE \in Nat
    BY SizeIsNat DEF IndInv, TypeOK, State, CursorInBounds
<1>2. \A i \in secret.read_offset + 1 .. secret.secret_len :
          secret.secret_buf[i] \in Byte
    BY <1>1
<1> DEFINE b == secret.secret_buf
           m == secret.read_offset + 1
           n == secret.secret_len
<1>3. m \in Int /\ n \in Int
    BY <1>1
<1> HIDE DEF b, m, n
<1>4. /\ SubSeq(b, m, n) \in Seq(Byte)
      /\ Len(SubSeq(b, m, n)) = IF m <= n THEN n - m + 1 ELSE 0
      /\ \A i \in 1 .. n - m + 1 : SubSeq(b, m, n)[i] = b[m + i - 1]
    <2>1. \A i \in m .. n : b[i] \in Byte
        BY <1>2 DEF b, m, n
    <2> QED BY <2>1, <1>3, SubSeqProperties
<1>5. Queued = SubSeq(b, m, n)
    BY DEF Queued, b, m, n
<1> USE DEF m, n
<1>6. Len(Queued) = n - secret.read_offset
    BY <1>1, <1>4, <1>5
<1>7. \A i \in 1 .. n - secret.read_offset : Queued[i] = b[secret.read_offset + i]
    <2> SUFFICES ASSUME NEW i \in 1 .. n - secret.read_offset
                 PROVE  Queued[i] = b[secret.read_offset + i]
        OBVIOUS
    <2>1. i \in 1 .. n - m + 1 /\ m + i - 1 = secret.read_offset + i
        BY <1>1
    <2> HIDE DEF m, n
    <2> QED BY <1>4, <1>5, <2>1
<1> QED BY <1>4, <1>5, <1>6, <1>7 DEF b, QueuedBytes

LEMMA OpenIsOpen ==
    ASSUME IndInv, NEW f \in Fd, NEW u \in Uid, NEW m \in {"R", "W"},
           secret_open(f, u, m)
    PROVE  Shown!Open(f, u, m) /\ UNCHANGED restarts
<1>1. /\ secret'.has_owner = TRUE
      /\ secret'.secret_owner = IF secret.has_owner THEN secret.secret_owner ELSE u
      /\ secret'.secret_len = secret.secret_len
      /\ secret'.secret_buf = secret.secret_buf
      /\ secret'.read_offset = secret.read_offset
      /\ secret'.read_fd_opened = (secret.read_fd_opened \/ m = "R")
    BY DEF IndInv, TypeOK, State, secret_open
<1>2. /\ fds[f] = NONE /\ fds' = [fds EXCEPT ![f] = [uid |-> u, mode |-> m]]
      /\ secret.has_owner => m = "R" /\ u = secret.secret_owner
      /\ got' = <<>> /\ restarts' = restarts
    BY DEF secret_open, Serving, Silent
<1> QED BY <1>1, <1>2 DEF Shown!Open

LEMMA CloseIsClose ==
    ASSUME IndInv, NEW f \in Fd, secret_close(f)
    PROVE  Shown!Close(f) /\ UNCHANGED restarts
<1> DEFINE left == IF secret.open_counter > 0 THEN secret.open_counter - 1
                   ELSE secret.open_counter
           clears == left = 0 /\ secret.read_fd_opened
           last == \A g \in Fd \ {f} : fds[g] = NONE
<1>1. /\ fds[f] # NONE /\ fds' = [fds EXCEPT ![f] = NONE]
      /\ got' = <<>> /\ restarts' = restarts
      /\ IF clears THEN secret' = Cleared
         ELSE secret' = [secret EXCEPT !.open_counter = left]
    BY DEF secret_close, Serving, Silent
<1>2. /\ Opened' = Opened \ {f} /\ Cardinality(Opened') = Cardinality(Opened) - 1
      /\ Cardinality(Opened) \in Nat
      /\ Cardinality(Opened') \in Nat /\ (Cardinality(Opened') = 0 <=> Opened' = {})
    BY <1>1, OpenedShrinks, OpenedFinite, OpenedNextFinite DEF IndInv
<1>3. Opened' = {} <=> last
    BY <1>2 DEF Opened
<1>4. /\ last => left = 0
      /\ restarts = 0 /\ left = 0 => last
    <2>1. secret.open_counter \in Nat
        BY OpenedFinite DEF IndInv, TypeOK, State
    <2>2. /\ secret.open_counter <= Cardinality(Opened)
          /\ restarts = 0 => secret.open_counter = Cardinality(Opened)
        BY DEF IndInv, CounterIsExact
    <2>3. Cardinality(Opened') = 0 <=> last
        BY <1>2, <1>3
    <2> HIDE DEF last
    <2> QED BY ONLY <1>2, <2>1, <2>2, <2>3
<1>5. restarts = 0 \/ restarts > 0
    BY DEF IndInv, TypeOK
<1> HIDE DEF left
<1>6. CASE clears
    <2>1. /\ secret'.has_owner = FALSE /\ secret'.read_fd_opened = FALSE
          /\ secret'.secret_len = 0 /\ secret'.read_offset = 0
        BY <1>1, <1>6 DEF Cleared
    <2>2. SubSeq(secret'.secret_buf, secret'.read_offset + 1, secret'.secret_len) = <<>>
        <3>1. SubSeq(secret'.secret_buf, 1, 0) = <<>>
            BY SubSeqEmpty
        <3> QED BY <2>1, <3>1
    <2>3. Shown!Forgotten
        BY <2>1, <2>2 DEF Shown!Forgotten
    <2>4. restarts > 0 \/ last
        BY <1>4, <1>5, <1>6
    <2> QED BY <1>1, <1>6, <2>3, <2>4 DEF Shown!Close
<1>7. CASE ~clears
    <2>1. /\ secret'.has_owner = secret.has_owner
          /\ secret'.secret_owner = secret.secret_owner
          /\ secret'.read_fd_opened = secret.read_fd_opened
          /\ secret'.secret_len = secret.secret_len
          /\ secret'.secret_buf = secret.secret_buf
          /\ secret'.read_offset = secret.read_offset
        BY <1>1, <1>7 DEF IndInv, TypeOK, State
    <2>2. ~(secret.read_fd_opened /\ last)
        BY <1>4, <1>7
    <2> HIDE DEF clears
    <2> QED BY <1>1, <2>1, <2>2 DEF Shown!Close
<1> QED BY <1>6, <1>7

\* A grant of an empty device, possible after a crash only, changes nothing that
\* Vault shows.
LEMMA IoctlIsGrant ==
    ASSUME IndInv, NEW f \in Fd, NEW u \in Uid, secret_ioctl(f, u)
    PROVE  (Shown!Grant(f, u) \/ Shown!Idle) /\ UNCHANGED restarts
<1>1. /\ fds[f] # NONE /\ got' = <<>> /\ UNCHANGED <<fds, restarts>>
    BY DEF secret_ioctl, Serving, Silent
<1>2. /\ secret'.has_owner = secret.has_owner /\ secret'.secret_owner = u
      /\ secret'.read_fd_opened = secret.read_fd_opened
      /\ secret'.secret_len = secret.secret_len
      /\ secret'.secret_buf = secret.secret_buf
      /\ secret'.read_offset = secret.read_offset
    BY DEF IndInv, TypeOK, State, secret_ioctl
<1>3. CASE secret.has_owner
    BY <1>1, <1>2, <1>3 DEF Shown!Grant
<1>4. CASE ~secret.has_owner
    BY <1>1, <1>2, <1>4 DEF Shown!Idle
<1> QED BY <1>3, <1>4

LEMMA GatherIsRead ==
    ASSUME IndInv, NEW f \in Fd, NEW data \in Request, gather(f, Len(data))
    PROVE  Shown!Read(f, Len(data)) /\ UNCHANGED restarts
<1>1. Len(data) \in Nat
    BY RequestAssumption
<1>2. PICK n \in Nat : n = Len(data)
    BY <1>1
<1>3. PICK bytes \in Nat :
          /\ bytes = IF secret.secret_len - secret.read_offset < n
                     THEN secret.secret_len - secret.read_offset ELSE n
          /\ secret.read_offset + bytes <= secret.secret_len
          /\ got' = [i \in 1 .. bytes |-> secret.secret_buf[secret.read_offset + i]]
          /\ secret' = [secret EXCEPT !.read_offset = secret.read_offset + bytes]
    BY <1>2, GatherStep
<1>4. /\ secret'.has_owner = secret.has_owner
      /\ secret'.secret_owner = secret.secret_owner
      /\ secret'.read_fd_opened = secret.read_fd_opened
      /\ secret'.secret_len = secret.secret_len
      /\ secret'.secret_buf = secret.secret_buf
      /\ secret'.read_offset = secret.read_offset + bytes
    BY <1>3 DEF IndInv, TypeOK, State
<1>ints. PICK off \in Nat, len \in Nat :
          off = secret.read_offset /\ len = secret.secret_len
    BY SizeIsNat DEF IndInv, TypeOK, State
<1>5. PICK buf, q, q2 :
          /\ off = secret.read_offset /\ len = secret.secret_len
          /\ buf = secret.secret_buf /\ q = Queued /\ q2 = Queued'
    BY <1>ints
<1>6. /\ q \in Seq(Byte) /\ Len(q) = len - off
      /\ \A i \in 1 .. len - off : q[i] = buf[off + i]
    BY <1>5, QueuedIs DEF QueuedBytes
<1>7. /\ q2 \in Seq(Byte) /\ Len(q2) = len - (off + bytes)
      /\ \A i \in 1 .. len - (off + bytes) : q2[i] = buf[(off + bytes) + i]
    <2>1. IndInv'
        BY <1>1, GatherInv
    <2>2. (IndInv => QueuedBytes)'
        BY QueuedIs, PTL
    <2>3. QueuedBytes'
        BY <2>1, <2>2
    <2> QED BY <1>4, <1>5, <2>3 DEF QueuedBytes
<1>8. bytes \in 0 .. len - off /\ Len(q) \in Nat
    BY <1>3, <1>5, <1>6
<1>9. got' = SubSeq(q, 1, bytes)
    <2>1. PICK g : g = got'
        OBVIOUS
    <2>2. g = [i \in 1 .. bytes |-> buf[off + i]]
        BY <1>3, <1>5, <2>1
    <2>3. \A i \in 1 .. bytes : q[i] \in Byte /\ q[i] = buf[off + i]
        BY <1>6, <1>8
    <2>4. /\ SubSeq(q, 1, bytes) \in Seq(Byte) /\ Len(SubSeq(q, 1, bytes)) = bytes
          /\ \A i \in 1 .. bytes : SubSeq(q, 1, bytes)[i] = q[i]
        BY <1>6, <1>8
    <2>5. g \in Seq(Byte) /\ Len(g) = bytes /\ \A i \in 1 .. bytes : g[i] = q[i]
        BY <2>2, <2>3
    <2>6. g = SubSeq(q, 1, bytes)
        BY ONLY <2>4, <2>5, SeqEqual
    <2> QED BY <2>1, <2>6
<1>10. q2 = SubSeq(q, bytes + 1, Len(q))
    <2> DEFINE rest == SubSeq(q, bytes + 1, Len(q))
    <2>1. /\ rest \in Seq(Byte) /\ Len(rest) = len - (off + bytes)
          /\ \A i \in 1 .. len - (off + bytes) : rest[i] = q[bytes + i]
        BY <1>6, <1>8
    <2>2. \A i \in 1 .. len - (off + bytes) : q2[i] = rest[i]
        <3> SUFFICES ASSUME NEW i \in 1 .. len - (off + bytes)
                     PROVE  q2[i] = rest[i]
            OBVIOUS
        <3>1. bytes + i \in 1 .. len - off /\ off + (bytes + i) = (off + bytes) + i
            BY <1>8
        <3> HIDE DEF rest
        <3> QED BY <1>6, <1>7, <2>1, <3>1
    <2> HIDE DEF rest
    <2>3. q2 = rest
        BY ONLY <1>7, <2>1, <2>2, SeqEqual
    <2> QED BY <2>3 DEF rest
<1>11. Shown!Least(n, Len(q)) = bytes
    BY <1>3, <1>5, <1>6 DEF Shown!Least
<1>12. /\ IsOpen(f, "R") /\ UNCHANGED <<fds, restarts>>
    BY DEF gather, Serving
<1>13. /\ got' = SubSeq(Queued, 1, Shown!Least(n, Len(Queued)))
       /\ Queued' = SubSeq(Queued, Shown!Least(n, Len(Queued)) + 1, Len(Queued))
    BY <1>5, <1>9, <1>10, <1>11
<1> QED BY <1>2, <1>4, <1>12, <1>13 DEF Shown!Read, Shown!IsOpen, IsOpen, Queued

LEMMA ScatterIsWrite ==
    ASSUME IndInv, NEW f \in Fd, NEW data \in Request, scatter(f, data)
    PROVE  Shown!Write(f, data) /\ UNCHANGED restarts
<1>1. PICK bytes \in Nat \ {0}, buf2 \in [1 .. SECRET_SIZE -> Byte] :
          /\ bytes = IF SECRET_SIZE - secret.secret_len < Len(data)
                     THEN SECRET_SIZE - secret.secret_len ELSE Len(data)
          /\ secret.secret_len + bytes <= SECRET_SIZE /\ bytes <= Len(data)
          /\ \A i \in 1 .. SECRET_SIZE :
                 buf2[i] = IF i \in secret.secret_len + 1 .. secret.secret_len + bytes
                           THEN data[i - secret.secret_len] ELSE secret.secret_buf[i]
          /\ secret' = [secret EXCEPT !.secret_buf = buf2,
                                      !.secret_len = secret.secret_len + bytes]
    BY ScatterStep
<1>2. /\ secret'.has_owner = secret.has_owner
      /\ secret'.secret_owner = secret.secret_owner
      /\ secret'.read_fd_opened = secret.read_fd_opened
      /\ secret'.secret_len = secret.secret_len + bytes
      /\ secret'.secret_buf = buf2
      /\ secret'.read_offset = secret.read_offset
    BY <1>1 DEF IndInv, TypeOK, State
<1>3. /\ secret.secret_len \in Nat /\ secret.read_offset \in Nat
      /\ secret.read_offset <= secret.secret_len
      /\ SECRET_SIZE \in Nat /\ data \in Seq(Nat) /\ Len(data) \in Nat
    BY SizeIsNat, RequestAssumption DEF IndInv, TypeOK, State, CursorInBounds
<1>ints. PICK off \in Nat, len \in Nat :
          off = secret.read_offset /\ len = secret.secret_len
    BY <1>3
<1>4. PICK buf, q, q2 :
          /\ off = secret.read_offset /\ len = secret.secret_len
          /\ buf = secret.secret_buf /\ q = Queued /\ q2 = Queued'
    BY <1>ints
<1>5. /\ q \in Seq(Byte) /\ Len(q) = len - off
      /\ \A i \in 1 .. len - off : q[i] = buf[off + i]
    BY <1>4, QueuedIs DEF QueuedBytes
<1>6. /\ q2 \in Seq(Byte) /\ Len(q2) = (len + bytes) - off
      /\ \A i \in 1 .. (len + bytes) - off : q2[i] = buf2[off + i]
    <2>1. IndInv'
        BY ScatterInv
    <2>2. (IndInv => QueuedBytes)'
        BY QueuedIs, PTL
    <2>3. QueuedBytes'
        BY <2>1, <2>2
    <2> QED BY <1>2, <1>4, <2>3 DEF QueuedBytes
<1>7. /\ off <= len /\ len + bytes <= SECRET_SIZE /\ bytes <= Len(data)
      /\ \A i \in 1 .. SECRET_SIZE :
             buf2[i] = IF i \in len + 1 .. len + bytes THEN data[i - len] ELSE buf[i]
    BY <1>1, <1>3, <1>4
<1> DEFINE new == SubSeq(data, 1, bytes)
<1>8. /\ new \in Seq(Byte) /\ Len(new) = bytes
      /\ \A i \in 1 .. bytes : new[i] = data[i]
    <2>1. \A i \in 1 .. bytes : data[i] \in Byte
        <3> SUFFICES ASSUME NEW i \in 1 .. bytes PROVE data[i] \in Byte
            OBVIOUS
        <3>1. i \in DOMAIN data
            BY <1>3, <1>7
        <3>2. data[i] \in {data[j] : j \in DOMAIN data}
            BY <3>1
        <3> QED BY <3>2 DEF Byte
    <2>2. /\ new \in Seq(Byte)
          /\ Len(new) = IF 1 <= bytes THEN bytes - 1 + 1 ELSE 0
          /\ \A i \in 1 .. bytes - 1 + 1 : new[i] = data[1 + i - 1]
        BY <2>1, SubSeqProperties
    <2> HIDE DEF new
    <2>3. \A i \in 1 .. bytes : i \in 1 .. bytes - 1 + 1 /\ 1 + i - 1 = i
        OBVIOUS
    <2> QED BY <2>2, <2>3
<1> HIDE DEF new
<1>9. q2 = q \o new
    <2> DEFINE t == q \o new
    <2>1. /\ t \in Seq(Byte) /\ Len(t) = (len - off) + bytes
          /\ \A i \in 1 .. (len - off) + bytes :
                 t[i] = IF i <= len - off THEN q[i] ELSE new[i - (len - off)]
        <3>1. /\ t \in Seq(Byte) /\ Len(t) = Len(q) + Len(new)
              /\ \A i \in 1 .. Len(q) + Len(new) :
                     t[i] = IF i <= Len(q) THEN q[i] ELSE new[i - Len(q)]
            BY <1>5, <1>8, ConcatProperties, Zenon
        <3> HIDE DEF t
        <3>2. Len(q) = len - off /\ Len(new) = bytes
            BY <1>5, <1>8
        <3> QED BY ONLY <3>1, <3>2, Zenon
    <2> HIDE DEF t
    <2>2. Len(t) = Len(q2)
        BY <1>6, <2>1
    <2>3. \A i \in 1 .. Len(t) : t[i] = q2[i]
        <3> SUFFICES ASSUME NEW i \in 1 .. (len - off) + bytes
                     PROVE  t[i] = q2[i]
            BY <2>1
        <3>1. q2[i] = buf2[off + i] /\ off + i \in 1 .. SECRET_SIZE
            BY <1>3, <1>6, <1>7
        <3>2. CASE i <= len - off
            <4>1. t[i] = buf[off + i]
                BY <1>5, <2>1, <3>2
            <4>2. off + i \notin len + 1 .. len + bytes
                BY <3>2
            <4> QED BY <1>7, <3>1, <4>1, <4>2
        <3>3. CASE ~(i <= len - off)
            <4>1. /\ i - (len - off) \in 1 .. bytes
                  /\ (off + i) - len = i - (len - off)
                  /\ off + i \in len + 1 .. len + bytes
                BY <1>7, <3>3
            <4>2. t[i] = data[i - (len - off)]
                BY <1>8, <2>1, <3>3, <4>1
            <4> QED BY <1>7, <3>1, <4>1, <4>2
        <3> QED BY <3>2, <3>3
    <2>4. t = q2
        BY ONLY <1>6, <2>1, <2>2, <2>3, SeqEqual
    <2> QED BY <2>4 DEF t
<1>10. Shown!Least(Len(data), SECRET_SIZE - secret.secret_len) = bytes
    BY <1>1, <1>3 DEF Shown!Least
<1>11. IsOpen(f, "W") /\ got' = <<>> /\ UNCHANGED <<fds, restarts>>
    BY DEF scatter, Serving, Silent
<1>12. Queued' = Queued
                   \o SubSeq(data, 1, Shown!Least(Len(data), SECRET_SIZE - secret.secret_len))
    BY <1>4, <1>9, <1>10 DEF new
<1> QED BY <1>2, <1>10, <1>11, <1>12 DEF Shown!Write, Shown!IsOpen, IsOpen, Queued

\* A step of a live update is not seen.
LEMMA UpdateIsIdle ==
    ASSUME IndInv,
           lu_prepare \/ sef_cb_lu_state_save \/ lu_state_restore \/ lu_fails
    PROVE  Shown!Idle /\ UNCHANGED restarts
<1>1. Updating
    BY DEF lu_prepare, sef_cb_lu_state_save, lu_state_restore, lu_fails
<1>2. secret' = secret
    BY RestoreStep DEF lu_prepare, sef_cb_lu_state_save, lu_fails
<1> QED BY <1>1, <1>2 DEF Updating, Silent, Shown!Idle

LEMMA RestartIsCrash ==
    ASSUME IndInv, restart
    PROVE  Shown!Crash
<1>1. /\ restarts' = restarts + 1 /\ secret' = Cleared /\ got' = <<>>
    BY DEF restart, Silent
<1>2. restarts' > 0
    BY <1>1 DEF IndInv, TypeOK
<1>3. \A f \in Fd : fds'[f] \in {fds[f], NONE}
    BY DEF restart
<1>4. /\ secret'.has_owner = FALSE /\ secret'.read_fd_opened = FALSE
      /\ secret'.secret_len = 0 /\ secret'.read_offset = 0
    BY <1>1 DEF Cleared
<1>5. SubSeq(secret'.secret_buf, secret'.read_offset + 1, secret'.secret_len) = <<>>
    <2>1. SubSeq(secret'.secret_buf, 1, 0) = <<>>
        BY SubSeqEmpty
    <2> QED BY <1>4, <2>1
<1>6. Shown!Forgotten
    BY <1>4, <1>5 DEF Shown!Forgotten
<1> QED BY <1>1, <1>2, <1>3, <1>6 DEF Shown!Crash

\* The driver implements Vault: a queue of bytes read once and in order, cleared
\* with the last file, whatever happens to its live updates.
THEOREM DriverIsVault == Spec => IsVault
<1>1. Init => Shown!Init
    <2> SUFFICES ASSUME Init PROVE Shown!Init
        OBVIOUS
    <2>1. /\ secret.has_owner = FALSE /\ secret.read_fd_opened = FALSE
          /\ secret.secret_len = 0 /\ secret.read_offset = 0
        BY DEF Init, Cleared
    <2>2. SubSeq(secret.secret_buf, secret.read_offset + 1, secret.secret_len) = <<>>
        <3>1. SubSeq(secret.secret_buf, 1, 0) = <<>>
            BY SubSeqEmpty
        <3> QED BY <2>1, <3>1
    <2>3. ~(restarts > 0)
        BY DEF Init
    <2> QED BY <2>1, <2>2, <2>3 DEF Init, Shown!Init
<1>2. IndInv /\ [Next]_vars
        => [Shown!Next]_<<restarts > 0, fds,
                          IF secret.has_owner THEN secret.secret_owner ELSE NONE,
                          secret.read_fd_opened, secret.secret_len, Queued, got>>
    <2> SUFFICES ASSUME IndInv, [Next]_vars
                 PROVE  \/ Shown!Next
                        \/ UNCHANGED <<secret, fds, got, restarts>>
        BY DEF Queued
    <2> USE DEF Shown!Next, Shown!Serve
    <2>1. ASSUME NEW f \in Fd, NEW u \in Uid, secret_ioctl(f, u) PROVE Shown!Next
        BY <2>1, IoctlIsGrant
    <2>2. ASSUME NEW f \in Fd, NEW u \in Uid, NEW mode \in {"R", "W"},
                 secret_open(f, u, mode)
          PROVE  Shown!Next
        BY <2>2, OpenIsOpen
    <2>3. ASSUME NEW f \in Fd, secret_close(f) PROVE Shown!Next
        BY <2>3, CloseIsClose
    <2>4. ASSUME NEW f \in Fd, NEW data \in Request, gather(f, Len(data))
          PROVE  Shown!Next
        BY <2>4, GatherIsRead
    <2>5. ASSUME NEW f \in Fd, NEW data \in Request, scatter(f, data)
          PROVE  Shown!Next
        BY <2>5, ScatterIsWrite
    <2>6. ASSUME lu_prepare \/ sef_cb_lu_state_save \/ lu_state_restore \/ lu_fails
          PROVE  Shown!Next
        BY <2>6, UpdateIsIdle
    <2>7. ASSUME restart PROVE Shown!Next
        BY <2>7, RestartIsCrash
    <2>8. ASSUME UNCHANGED vars PROVE UNCHANGED <<secret, fds, got, restarts>>
        BY <2>8 DEF vars
    <2> HIDE DEF Shown!Next, Shown!Serve
    <2> QED BY <2>1, <2>2, <2>3, <2>4, <2>5, <2>6, <2>7, <2>8 DEF Next
<1> QED BY <1>1, <1>2, Invariance, PTL DEF Spec, IsVault, Shown!Spec, Queued
=============================================================================
