------------------------------ MODULE Backends ------------------------------
(***************************************************************************)
(* Where the bytes behind a hash are, and what may come between a put and  *)
(* the get that wants them: the local store, buckets, path-shaped and      *)
(* id-shaped providers behind one trait (backend.rs, backend_proxy.rs),    *)
(* the envelope that seals what they keep (encrypted.rs, crypto.rs), and   *)
(* the three callers: tiering puts on the primary, a migration copies, a   *)
(* blob read falls back from one backend to the next.  A caller is one     *)
(* statement or provider request at a time, and may stop after any.        *)
(*                                                                         *)
(* Bytes say which object they are and under which key they were sealed,   *)
(* 0 standing for neither.  A hash is the object's.  Storage has what a    *)
(* migration may miss; here every object of Objects is live.               *)
(***************************************************************************)
EXTENDS Naturals, Sequences, FiniteSets, SequencesExt

CONSTANTS
  Stores, Local,   \* storage_backend entities of the workspace, all active; the local store
  Askers,          \* requests that may be in progress together
  Objects,         \* a blob: its manifest 1, and its chunks in order
  MaxFiles,        \* bound: locators; the first ones are the paths of Objects
  MaxAsks, MaxBreaks \* bounds: requests, and what goes wrong from outside

ASSUME BackendsAssumption ==
  /\ Local \notin Stores /\ IsFiniteSet(Stores) /\ Stores # {}
  /\ IsFiniteSet(Objects) /\ Objects # {} /\ Objects = 1..Cardinality(Objects)
  /\ {MaxFiles, MaxAsks, MaxBreaks} \subseteq Nat /\ Cardinality(Objects) <= MaxFiles

VARIABLES
  kind,    \* of each store
  sealing, \* its attribute `encryption`
  linked,  \* stores whose connection row is active
  files,   \* the bytes at each locator, of the local store and of each store
  index,   \* blob_backends: the locator of each object on each store, or 0
  key,     \* the workspace's envelope key, or 0
  minted,  \* keys made so far
  ask,     \* local variables of each request
  asks, breaks,
  acked,   \* history: what a put on a store was acknowledged for
  missed,  \* history: objects a read gave up on although a backend had them
  altered  \* history: stores whose encryption was switched, or whose files changed

backendVars == <<kind, sealing, linked, files, index, key, minted, ask, asks, breaks,
                 acked, missed, altered>>

Kinds   == {"local-fs", "bucket", "path", "drive"}
Proxied == {s \in Stores : kind[s] \in {"path", "drive"}}
Bytes   == [of : {0} \cup Objects, key : 0..MaxAsks]
Junk    == [of |-> 0, key |-> 0]
Nothing == [of |-> 0, key |-> MaxAsks + 1]   \* no file
Plain(o) == [of |-> o, key |-> 0]
Locators == 1..MaxFiles
NewAsk(op, pc, todo, due) ==
  [op |-> op, pc |-> pc, todo |-> todo, built |-> <<>>, o |-> 1, at |-> 1,
   bytes |-> Nothing, new |-> 0, due |-> due]
IdleAsk == NewAsk("idle", "idle", <<>>, {})

\* A local store may hold objects already, a corrupt one among them.
BackendsInit ==
  /\ kind \in [Stores -> Kinds] /\ sealing \in [Stores -> BOOLEAN] /\ linked = Stores
  /\ \E held \in [Objects -> {"none", "good", "junk"}] :
       files = [s \in Stores \cup {Local} |-> [l \in Locators |->
                  IF s = Local /\ l \in Objects
                    THEN CASE held[l] = "good" -> Plain(l)
                           [] held[l] = "junk" -> Junk
                           [] OTHER -> Nothing
                    ELSE Nothing]]
  /\ index = [s \in Stores |-> [o \in Objects |-> 0]]
  /\ key = 0 /\ minted = 0
  /\ ask = [c \in Askers |-> IdleAsk]
  /\ asks = 0 /\ breaks = 0
  /\ acked = [s \in Stores |-> {}] /\ missed = {} /\ altered = {}

Be(c, a) == ask' = [ask EXCEPT ![c] = a]
Outside == <<kind, sealing, linked, asks, breaks, altered>>

(* The trait: where an object is, what is fetched, and what the caller sees. *)
Root(s) == IF s = Local \/ kind[s] = "local-fs" THEN Local ELSE s
Located(s, o) ==
  IF s \in Proxied /\ index[s][o] # 0 THEN index[s][o]
  ELSE IF s # Local /\ kind[s] = "drive" THEN 0     \* no path to derive
  ELSE o
FetchUnverified(s, o) ==
  IF Located(s, o) = 0 THEN Nothing ELSE files[Root(s)][Located(s, o)]
\* A sealed object opens under its key only; read as it is, it is other bytes.
Decrypt(b, k) == IF k = 0 /\ b.key # 0 THEN Junk
                 ELSE IF b.key = k THEN [b EXCEPT !.key = 0] ELSE Nothing
VerifyBytes(b, o) == b # Nothing /\ b.of = o
Has(s, o) == IF s \in Proxied THEN index[s][o] # 0 ELSE files[Root(s)][o] # Nothing

\* What a get on s finds now.
Yields(s, o) ==
  LET k == IF s # Local /\ sealing[s] THEN key ELSE 0
      b == Decrypt(FetchUnverified(s, o), k)
  IN b # Nothing /\ b.of = o
\* Under no key yet, what is sealed opens for nobody.
Readable == {p \in (Stores \cup {Local}) \X Objects :
               Yields(p[1], p[2]) /\ (p[1] # Local /\ sealing[p[1]] => key # 0)}

(* What a request is built from: each configuration as it was read, with its
   encryption.  No folder is set, so local-fs is the local store again. *)
Config(s)  == [store |-> s, seal |-> s # Local /\ sealing[s]]
Configs(order) == [i \in DOMAIN order |-> Config(order[i])]
Orders     == SetToSeqs(Stores)             \* the default one first, then by age

BeginAsk(c, op, stores) ==
  /\ ask[c].op = "idle" /\ asks < MaxAsks
  /\ Be(c, NewAsk(op, "connect", Configs(stores), IF op = "tier" THEN {} ELSE Readable))
  /\ asks' = asks + 1
  /\ UNCHANGED <<kind, sealing, linked, files, index, key, minted, breaks, acked, missed, altered>>

\* tier_out_cold puts its bundle on the primary backend.
TierOut(c) == \E order \in Orders : BeginAsk(c, "tier", <<Head(order)>>)
\* The target of a migration is built first, then all that may be read.
Migrate(c) == \E order \in Orders, s \in Stores : BeginAsk(c, "migrate", <<s, Local>> \o order)
ReadBlob(c) == \E order \in Orders : BeginAsk(c, "read", <<Local>> \o order)

First(op) == CASE op = "tier" -> "put" [] op = "migrate" -> "has" [] op = "read" -> "get"
Built(c, k) ==
  LET a == ask[c]  more == Tail(a.todo) # <<>> IN
  [a EXCEPT !.todo = Tail(a.todo),
            !.built = Append(a.built, [store |-> Head(a.todo).store, key |-> k]),
            !.pc = IF more THEN "connect" ELSE First(a.op),
            !.at = IF a.op = "migrate" THEN 2 ELSE 1,
            !.bytes = IF a.op = "tier" THEN Plain(1) ELSE Nothing]

\* backend_from_config: connection_auth needs an active row, or the whole request
\* fails; the envelope needs the key.
BackendFromConfig(c) ==
  /\ ask[c].pc = "connect"
  /\ LET f == Head(ask[c].todo) IN
       Be(c, IF f.store # Local /\ kind[f.store] # "local-fs" /\ f.store \notin linked THEN IdleAsk
             ELSE IF f.seal THEN [ask[c] EXCEPT !.pc = "select_key"]
             ELSE Built(c, 0))
  /\ UNCHANGED <<Outside, files, index, key, minted, acked, missed>>

\* ensure_envelope_key: a SELECT, a compare-and-swap, and a second SELECT.
SelectKey(c) ==
  /\ ask[c].pc = "select_key"
  /\ Be(c, IF key # 0 THEN Built(c, key) ELSE [ask[c] EXCEPT !.pc = "store_key", !.new = minted + 1])
  /\ minted' = IF key # 0 THEN minted ELSE minted + 1
  /\ UNCHANGED <<Outside, files, index, key, acked, missed>>

\* mutant: an unconditional write.
StoreKeyAlways(c) ==
  /\ ask[c].pc = "store_key" /\ key' = ask[c].new /\ Be(c, Built(c, ask[c].new))
  /\ UNCHANGED <<Outside, files, index, minted, acked, missed>>

StoreKey(c) ==
  /\ ask[c].pc = "store_key"
  /\ key' = IF key = 0 THEN ask[c].new ELSE key
  /\ Be(c, IF key = 0 THEN Built(c, ask[c].new) ELSE [ask[c] EXCEPT !.pc = "reread_key"])
  /\ UNCHANGED <<Outside, files, index, minted, acked, missed>>

RereadKey(c) ==
  /\ ask[c].pc = "reread_key" /\ Be(c, Built(c, key))
  /\ UNCHANGED <<Outside, files, index, key, minted, acked, missed>>

\* The object a request is at is done with: tiering has one.
Onward(a) ==
  IF a.op = "tier" \/ a.o = Cardinality(Objects) THEN IdleAsk
  ELSE [a EXCEPT !.o = a.o + 1, !.pc = First(a.op), !.at = IF a.op = "migrate" THEN 2 ELSE 1]
Target(c) == ask[c].built[1]

\* migrate_objects: `has` before a copy.
HasObject(c) ==
  /\ ask[c].pc = "has"
  /\ Be(c, IF Has(Target(c).store, ask[c].o) THEN Onward(ask[c]) ELSE [ask[c] EXCEPT !.pc = "get"])
  /\ UNCHANGED <<Outside, files, index, key, minted, acked, missed>>

\* read_object_with_fallback: the next backend when this one has no such bytes,
\* fails, or has others; no more backends fail a read, and a migration counts.
StillHas(a, s) == <<s, a.o>> \in a.due /\ \A r \in altered : Root(r) # Root(s)
GiveUp(c, a) ==
  /\ Be(c, IF a.op = "migrate" THEN Onward(a) ELSE IdleAsk)
  /\ missed' = missed \cup {o \in {a.o} : \E s \in Stores \cup {Local} : StillHas(a, s)}
NextBackend(c, a) ==
  IF a.at < Len(a.built) THEN Be(c, [a EXCEPT !.at = a.at + 1]) /\ UNCHANGED missed
  ELSE GiveUp(c, a)
Found(a, b) == IF a.op = "migrate" THEN [a EXCEPT !.pc = "put", !.bytes = b] ELSE Onward(a)

\* mutant: a backend that has the wrong bytes ends the search.
GetObjectOnce(c) ==
  /\ ask[c].pc = "get"
  /\ LET a == ask[c]  e == a.built[a.at]
         b == Decrypt(FetchUnverified(e.store, a.o), e.key)
     IN \/ VerifyBytes(b, a.o) /\ Be(c, Found(a, b)) /\ UNCHANGED <<missed, breaks>>
        \/ b = Nothing /\ NextBackend(c, a) /\ UNCHANGED breaks
        \/ b # Nothing /\ ~VerifyBytes(b, a.o) /\ GiveUp(c, a) /\ UNCHANGED breaks
        \/ /\ breaks < MaxBreaks /\ breaks' = breaks + 1
           /\ NextBackend(c, [a EXCEPT !.due = a.due \ {<<e.store, a.o>>}])
  /\ UNCHANGED <<kind, sealing, linked, asks, altered, files, index, key, minted, acked>>

GetObject(c) ==
  /\ ask[c].pc = "get"
  /\ LET a == ask[c]  e == a.built[a.at]
         b == Decrypt(FetchUnverified(e.store, a.o), e.key)
     IN \/ VerifyBytes(b, a.o) /\ Be(c, Found(a, b)) /\ UNCHANGED <<missed, breaks>>
        \/ ~VerifyBytes(b, a.o) /\ NextBackend(c, a) /\ UNCHANGED breaks
        \/ /\ breaks < MaxBreaks /\ breaks' = breaks + 1
           /\ NextBackend(c, [a EXCEPT !.due = a.due \ {<<e.store, a.o>>}])
  /\ UNCHANGED <<kind, sealing, linked, asks, altered, files, index, key, minted, acked>>

\* put of the envelope, then of what it wraps.
Seal(c) == [ask[c].bytes EXCEPT !.key = Target(c).key]
Acked(c) == IF Target(c).store = Local THEN acked
            ELSE [acked EXCEPT ![Target(c).store] = @ \cup {ask[c].o}]
Write(s, l, b) == files' = [files EXCEPT ![s] = [files[s] EXCEPT ![l] = b]]

\* A file that is there is not written again; a bucket's object is.
PutDirect(c) ==
  LET s == Target(c).store IN
  /\ ask[c].pc = "put" /\ s \notin Proxied
  /\ IF kind[s] = "local-fs" /\ Has(s, ask[c].o) THEN UNCHANGED files
     ELSE Write(Root(s), ask[c].o, Seal(c))
  /\ acked' = Acked(c) /\ Be(c, Onward(ask[c]))
  /\ UNCHANGED <<Outside, index, key, minted, missed>>

\* A proxied one looks at its index first.
IndexedLocator(c) ==
  LET s == Target(c).store IN
  /\ ask[c].pc = "put" /\ s \in Proxied
  /\ IF index[s][ask[c].o] # 0 THEN acked' = Acked(c) /\ Be(c, Onward(ask[c]))
     ELSE UNCHANGED acked /\ Be(c, [ask[c] EXCEPT !.pc =
                                     IF kind[s] = "drive" THEN "create" ELSE "upload"])
  /\ UNCHANGED <<Outside, files, index, key, minted, missed>>

\* Drive makes a file with an id of its own, and then takes its media.
Taken(s) == {l \in Locators : files[s][l] # Nothing} \cup Objects
CreateFile(c) ==
  LET s == Target(c).store IN
  /\ ask[c].pc = "create"
  /\ \E l \in Locators \ Taken(s) :
       Write(s, l, Junk) /\ Be(c, [ask[c] EXCEPT !.pc = "upload", !.new = l])
  /\ UNCHANGED <<Outside, index, key, minted, acked, missed>>

Locator(c) == IF kind[Target(c).store] = "drive" THEN ask[c].new ELSE ask[c].o
Uploading(c) ==
  /\ ask[c].pc = "upload" /\ Write(Target(c).store, Locator(c), Seal(c))
  /\ Be(c, [ask[c] EXCEPT !.pc = "remember"])
  /\ UNCHANGED <<Outside, index, key, minted, acked, missed>>

RecordLocation(c) ==
  /\ ask[c].pc = "remember"
  /\ LET s == Target(c).store IN
       index' = [index EXCEPT ![s] = [index[s] EXCEPT ![ask[c].o] = Locator(c)]]
  /\ acked' = Acked(c) /\ Be(c, Onward(ask[c]))
  /\ UNCHANGED <<Outside, files, key, minted, missed>>

(* What goes wrong. *)
Break == breaks < MaxBreaks /\ breaks' = breaks + 1
\* A statement or a request fails, or the API dies.
Abandon(c) ==
  /\ ask[c].op # "idle" /\ ask[c].pc # "get" /\ Break /\ Be(c, IdleAsk)
  /\ UNCHANGED <<kind, sealing, linked, files, index, key, minted, asks, acked, missed, altered>>
\* A connection is revoked.
Unlink(s) ==
  /\ s \in linked /\ Break /\ linked' = linked \ {s}
  /\ UNCHANGED <<kind, sealing, files, index, key, minted, ask, asks, acked, missed, altered>>
\* PATCH /api/entity sets `encryption`: nothing is written anew.
SwitchEncryption(s) ==
  /\ Break /\ sealing' = [sealing EXCEPT ![s] = ~sealing[s]] /\ altered' = altered \cup {s}
  /\ UNCHANGED <<kind, linked, files, index, key, minted, ask, asks, acked, missed>>
\* A provider loses a file or hands out another's.
Tamper(s) ==
  /\ kind[s] # "local-fs" /\ Break /\ altered' = altered \cup {s}
  /\ \E l \in Locators, b \in {Junk, Nothing} :
       files[s][l] # Nothing /\ Write(s, l, b)
  /\ UNCHANGED <<kind, sealing, linked, index, key, minted, ask, asks, acked, missed>>

BackendsStep(c) ==
  \/ TierOut(c) \/ Migrate(c) \/ ReadBlob(c)
  \/ BackendFromConfig(c) \/ SelectKey(c) \/ StoreKey(c) \/ RereadKey(c)
  \/ HasObject(c) \/ GetObject(c)
  \/ PutDirect(c) \/ IndexedLocator(c) \/ CreateFile(c) \/ Uploading(c) \/ RecordLocation(c)
  \/ Abandon(c)
BackendsNext ==
  \/ \E c \in Askers : BackendsStep(c)
  \/ \E s \in Stores : Unlink(s) \/ SwitchEncryption(s) \/ Tamper(s)

\* An object whose put was acknowledged can be read from one backend or another by
\* whoever reads the key after: through races for the first
\* key, uploads that stopped half way and puts that met, unless the provider
\* changed its files or encryption was switched (backend.rs:62-64, crypto.rs:85),
\* of this store or of another local-fs one that keeps its files in the same place,
\* or the local store had a corrupt file, which it does not write again.
StoredIsReadable ==
  \A s \in Stores : (\A r \in altered : Root(r) # Root(s)) => \A o \in acked[s] :
    (\E r \in Stores \cup {Local} : Yields(r, o)) \/ (kind[s] = "local-fs" /\ files[Local][o] = Junk)

\* A read, of a blob or for a copy, gives up on an object only if no backend had it
\* whole when the read began: a corrupt local file, an upload that died, a seal that
\* does not open and a provider that lost its file are passed over for one that has
\* it, unless the get of that one fails, or its files or settings are changed from
\* outside (migrate.rs:10-18).
ReadsFind == missed = {}
=============================================================================
