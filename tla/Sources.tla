------------------------------ MODULE Sources ------------------------------
(***************************************************************************)
(* The integrations: accounts connected through the Nango vault, Kite, a   *)
(* browser or WhatsApp, and the sync handlers that mirror what a provider  *)
(* lists as entities.  A handler is a list of statements and provider      *)
(* calls that overlaps with other handlers and may stop after any of them. *)
(*                                                                         *)
(* An outward write only ever inserts a draft entity; a provider is called *)
(* to list and to read.  What an item contains is left out.                *)
(***************************************************************************)
EXTENDS Naturals, Sequences

CONSTANTS
  NoHandle,
  Clients,    \* handlers that may run at once
  Handles,    \* connection ids the vault may mint
  Providers,  \* the providers of this instance; a behaviour is about one
  Items,      \* numbers of the items a provider may list
  MaxRows,    \* bound: connection rows
  MaxSyncs,   \* bound: handlers started
  MaxFaults   \* bound: handlers that stop early, and events that are lost

ASSUME SourcesAssumption == Items \subseteq Nat /\ Items # {}

VARIABLES
  provider,   \* the provider this behaviour is about
  remote,     \* items at the provider
  vault,      \* connections alive in Nango
  granted,     \* connection ids handed out so far
  rows,       \* the connections table
  mirror,     \* entities: ids are a function of the provider's own id
  told,       \* events per entity
  edges,      \* `mirrors` edges per page
  extra,      \* entities with fresh ids: drafts and captured messages
  call,       \* the handlers
  started,
  faults

sourceVars == <<provider, remote, vault, granted, rows, mirror, told, edges, extra,
                call, started, faults>>

EntityKinds == {"thread", "email", "channel", "message", "page", "note", "db", "event",
          "file", "booking"}
Keys == EntityKinds \X Items
One == CHOOSE i \in Items : TRUE

Put(kind, i) == [do |-> "put", key |-> <<kind, i>>]
Tell(kind, i) == [do |-> "tell", key |-> <<kind, i>>, of |-> {<<kind, i>>}]
Call(what) == [do |-> "call", what |-> what]

\* What a sync does for a listed item.  The mails of an instance are one thread,
\* the messages one channel, and odd Notion items are pages, even ones databases.
GmailSync(i) ==
  <<Call("detail"), Put("thread", One), Tell("thread", One), Put("email", i), Tell("email", i)>>

SlackSync == <<Put("channel", One), Tell("channel", One), Call("history")>>
SlackHistory(i) == <<Put("message", i), Tell("message", i)>>

NotionSync(i) ==
  IF i % 2 = 0 THEN <<Put("db", i), Tell("db", i)>>
  ELSE <<Put("page", i), Put("note", i), [do |-> "seek", page |-> i],
         [do |-> "tell", key |-> <<"note", i>>, of |-> {<<"page", i>>, <<"note", i>>}]>>

CalendarSync(i) == <<Put("event", i), Tell("event", i)>>
DriveSync(i) == <<Put("file", i), Tell("file", i)>>

\* Local: the bookings are derived from the mails that are mirrored already, and
\* the items listed are those that look like one.
ParseEmails(i) == <<Put("booking", i), Tell("booking", i)>>

Statements(i) ==
  CASE provider = "gmail"    -> GmailSync(i)
    [] provider = "slack"    -> SlackHistory(i)
    [] provider = "notion"   -> NotionSync(i)
    [] provider = "calendar" -> CalendarSync(i)
    [] provider = "drive"    -> DriveSync(i)
    [] OTHER                 -> ParseEmails(i)

\* A handler: the statements it is at, the listed items left, the entities it
\* inserted, and (history) the items its listing held.
Idle == [op |-> "idle", todo |-> << >>, left |-> {}, fresh |-> {}, seen |-> {}]

SourcesInit ==
  /\ provider \in Providers
  /\ remote \in (SUBSET Items) \ {{}}
  /\ vault = {} /\ granted = {}
  /\ rows = << >>
  /\ mirror = IF provider = "travel" THEN {<<"email", i>> : i \in Items} ELSE {}
  /\ told = [k \in Keys |-> 0]
  /\ edges = [i \in Items |-> 0]
  /\ extra = 0
  /\ call = [c \in Clients |-> Idle]
  /\ started = 0 /\ faults = 0

SourcesTypeOK ==
  /\ provider \in Providers /\ remote \subseteq Items
  /\ vault \subseteq granted /\ granted \subseteq Handles
  /\ \A n \in DOMAIN rows : rows[n] \in [handle : Handles \cup {NoHandle},
                                          status : {"pending", "active", "revoked"}]
  /\ mirror \subseteq Keys
  /\ told \in [Keys -> 0..MaxSyncs] /\ edges \in [Items -> 0..MaxSyncs]
  /\ extra \in 0..MaxSyncs
  /\ \A c \in Clients : call[c].op \in {"idle", "sync", "done", "other"}
  /\ started \in 0..MaxSyncs /\ faults \in 0..MaxFaults

\* The connection a provider call goes through: the active row made last.
Newest ==
  LET active == {n \in DOMAIN rows : rows[n].status = "active"}
  IN IF active = {} THEN NoHandle ELSE rows[CHOOSE n \in active : \A k \in active : k <= n].handle

Reachable == provider = "travel" \/ Newest \in vault

Start(c, op, todo) ==
  /\ call[c].op \in {"idle", "done"} /\ started < MaxSyncs
  /\ started' = started + 1
  /\ call' = [call EXCEPT ![c] = [Idle EXCEPT !.op = op, !.todo = todo]]

Rest == <<provider, remote, vault, granted, rows, mirror, told, edges, extra, faults>>

Now(c, what) == call[c].todo # << >> /\ Head(call[c].todo).do = what
On(c) == [call EXCEPT ![c] = [call[c] EXCEPT !.todo = Tail(call[c].todo)]]

\* A user authorises an account in Nango's own window.
Authorize(h) ==
  /\ h \notin granted
  /\ granted' = granted \cup {h} /\ vault' = vault \cup {h}
  /\ UNCHANGED <<provider, remote, rows, mirror, told, edges, extra, call, started, faults>>

StartSession(c) ==
  /\ provider = "whatsapp"
  /\ Start(c, "other", <<[do |-> "insert", handle |-> NoHandle, status |-> "pending"]>>)
  /\ UNCHANGED Rest

\* Nango is asked before the client's claim is believed.
Complete(c, h) ==
  /\ provider \notin {"whatsapp", "kite", "browser", "travel"}
  /\ h \in vault
  /\ Start(c, "other", <<[do |-> "insert", handle |-> h, status |-> "active"]>>)
  /\ UNCHANGED Rest

CompleteKite(c) ==
  /\ provider = "kite"
  /\ Start(c, "other", <<[do |-> "insert", handle |-> NoHandle, status |-> "active"]>>)
  /\ UNCHANGED Rest

CaptureSession(c) ==
  /\ provider = "browser"
  /\ Start(c, "other", <<[do |-> "insert", handle |-> NoHandle, status |-> "active"]>>)
  /\ UNCHANGED Rest

InsertRow(c) ==
  /\ Now(c, "insert") /\ Len(rows) < MaxRows
  /\ rows' = Append(rows, [handle |-> Head(call[c].todo).handle,
                           status |-> Head(call[c].todo).status])
  /\ call' = On(c)
  /\ UNCHANGED <<provider, remote, vault, granted, mirror, told, edges, extra, started, faults>>

\* GOWA reports the device as logged in.
PollStatus ==
  /\ provider = "whatsapp" /\ \E n \in DOMAIN rows : rows[n].status = "pending"
  /\ rows' = [n \in DOMAIN rows |->
                IF rows[n].status = "pending" THEN [rows[n] EXCEPT !.status = "active"] ELSE rows[n]]
  /\ UNCHANGED <<provider, remote, vault, granted, mirror, told, edges, extra, call, started, faults>>

Disconnect(c, n) ==
  /\ Start(c, "other",
           IF rows[n].handle = NoHandle THEN <<[do |-> "revoke", row |-> n]>>
           ELSE <<[do |-> "delete", row |-> n], [do |-> "revoke", row |-> n]>>)
  /\ UNCHANGED Rest

\* Nango answers 404 to a second deletion, which counts as done.
DeleteConnection(c) ==
  /\ Now(c, "delete")
  /\ vault' = vault \ {rows[Head(call[c].todo).row].handle}
  /\ call' = On(c)
  /\ UNCHANGED <<provider, remote, granted, rows, mirror, told, edges, extra, started, faults>>

MarkRevoked(c) ==
  /\ Now(c, "revoke")
  /\ rows' = [rows EXCEPT ![Head(call[c].todo).row].status = "revoked"]
  /\ call' = On(c)
  /\ UNCHANGED <<provider, remote, vault, granted, mirror, told, edges, extra, started, faults>>

\* A message reaches the webhook: an entity with an id of its own.
Webhook(c) ==
  /\ provider = "whatsapp"
  /\ Start(c, "other", <<[do |-> "create"]>>)
  /\ UNCHANGED Rest

\* Every outward write is a draft that waits for a human.
Draft(c, p) ==
  /\ provider = p
  /\ Start(c, "other", <<[do |-> "create"]>>)
  /\ UNCHANGED Rest

Send(c) == Draft(c, "gmail")
Post(c) == Draft(c, "slack")
CreatePage(c) == Draft(c, "notion")
PushNote(c) == (\E i \in Items : <<"note", i>> \in mirror) /\ Draft(c, "notion")
Upload(c) == Draft(c, "drive")
Share(c) == Draft(c, "drive")
CreateEvent(c) == Draft(c, "calendar")
MoveEvent(c) == Draft(c, "calendar")
Act(c) == Draft(c, "browser")
Book(c) == Draft(c, "travel")
SendWhatsApp(c) == Draft(c, "whatsapp")

InsertDraft(c) ==
  /\ Now(c, "create")
  /\ extra' = extra + 1
  /\ call' = On(c)
  /\ UNCHANGED <<provider, remote, vault, granted, rows, mirror, told, edges, started, faults>>

Sync(c) ==
  /\ provider \notin {"whatsapp", "kite", "browser"}
  /\ Start(c, "sync", <<Call("list")>>)
  /\ UNCHANGED Rest

\* A call through Nango's proxy; the listing and a channel's history say what
\* comes next.
ProxyCall(c) ==
  /\ Now(c, "call") /\ Reachable
  /\ LET what == Head(call[c].todo).what
         channel == what = "list" /\ provider = "slack" IN
     call' = [call EXCEPT ![c] =
       [call[c] EXCEPT !.todo = IF channel THEN SlackSync ELSE Tail(call[c].todo),
                       !.left = IF what = "detail" \/ channel THEN call[c].left ELSE remote,
                       !.seen = IF what = "list" THEN remote ELSE call[c].seen]]
  /\ UNCHANGED Rest /\ UNCHANGED started

\* The items are taken in the order of the listing, which may be any.
NextItem(c) ==
  /\ call[c].op = "sync" /\ call[c].todo = << >>
  /\ \E i \in call[c].left :
       call' = [call EXCEPT ![c] = [call[c] EXCEPT !.todo = Statements(i),
                                                   !.left = call[c].left \ {i}]]
  /\ UNCHANGED Rest /\ UNCHANGED started

\* INSERT ... ON CONFLICT(id) DO NOTHING, and whether it inserted.
Upsert(c) ==
  /\ Now(c, "put")
  /\ LET k == Head(call[c].todo).key IN
       /\ mirror' = mirror \cup {k}
       /\ call' = [call EXCEPT ![c] =
            [call[c] EXCEPT !.todo = Tail(call[c].todo),
                            !.fresh = IF k \in mirror THEN call[c].fresh \ {k} ELSE call[c].fresh \cup {k}]]
  /\ UNCHANGED <<provider, remote, vault, granted, rows, told, edges, extra, started, faults>>

\* mutant: every item listed is told of.
EmitAlways(c) ==
  /\ Now(c, "tell")
  /\ told' = [told EXCEPT ![Head(call[c].todo).key] = @ + 1]
  /\ call' = On(c)
  /\ UNCHANGED <<provider, remote, vault, granted, rows, mirror, edges, extra, started, faults>>

\* A sync tells of what it inserted; an event that cannot be written is dropped.
Emit(c) ==
  /\ Now(c, "tell")
  /\ LET e == Head(call[c].todo) IN
       \/ /\ e.of \cap call[c].fresh # {}
          /\ told' = [told EXCEPT ![e.key] = @ + 1]
          /\ UNCHANGED faults
       \/ /\ e.of \cap call[c].fresh = {}
          /\ UNCHANGED <<told, faults>>
       \/ /\ e.of \cap call[c].fresh # {} /\ faults < MaxFaults
          /\ faults' = faults + 1
          /\ UNCHANGED told
  /\ call' = On(c)
  /\ UNCHANGED <<provider, remote, vault, granted, rows, mirror, edges, extra, started>>

\* ensure_mirror_edge: a SELECT, and an INSERT when it found none.
SeekEdge(c) ==
  /\ Now(c, "seek")
  /\ LET i == Head(call[c].todo).page IN
       call' = IF edges[i] > 0 THEN On(c)
               ELSE [call EXCEPT ![c] =
                      [call[c] EXCEPT !.todo = [call[c].todo EXCEPT ![1] = [do |-> "link", page |-> i]]]]
  /\ UNCHANGED Rest /\ UNCHANGED started

InsertEdge(c) ==
  /\ Now(c, "link")
  /\ edges' = [edges EXCEPT ![Head(call[c].todo).page] = @ + 1]
  /\ call' = On(c)
  /\ UNCHANGED <<provider, remote, vault, granted, rows, mirror, told, extra, started, faults>>

Reply(c) ==
  /\ call[c].op \in {"sync", "other"} /\ call[c].todo = << >> /\ call[c].left = {}
  /\ call' = [call EXCEPT ![c] = IF call[c].op = "sync"
                                 THEN [Idle EXCEPT !.op = "done", !.seen = call[c].seen]
                                 ELSE Idle]
  /\ UNCHANGED Rest /\ UNCHANGED started

\* A statement or a call fails and the handler answers an error, or the API dies.
Stop(c) ==
  /\ call[c].op \in {"sync", "other"}
  /\ \/ ~Reachable /\ Now(c, "call") /\ UNCHANGED faults
     \/ faults < MaxFaults /\ faults' = faults + 1
  /\ call' = [call EXCEPT ![c] = Idle]
  /\ UNCHANGED <<provider, remote, vault, granted, rows, mirror, told, edges, extra, started>>

\* Mail arrives, a page is written.
Arrive(i) ==
  /\ provider # "travel" /\ i \notin remote
  /\ remote' = remote \cup {i}
  /\ UNCHANGED <<provider, vault, granted, rows, mirror, told, edges, extra, call, started, faults>>

SourcesNext ==
  \/ \E h \in Handles : Authorize(h)
  \/ \E i \in Items : Arrive(i)
  \/ PollStatus
  \/ \E c \in Clients :
       \/ StartSession(c) \/ CompleteKite(c) \/ CaptureSession(c)
       \/ \E h \in Handles : Complete(c, h)
       \/ \E n \in DOMAIN rows : Disconnect(c, n)
       \/ Send(c) \/ Post(c) \/ CreatePage(c) \/ PushNote(c) \/ Upload(c) \/ Share(c)
       \/ CreateEvent(c) \/ MoveEvent(c) \/ Act(c) \/ Book(c) \/ SendWhatsApp(c)
       \/ Webhook(c) \/ Sync(c)
       \/ InsertRow(c) \/ DeleteConnection(c) \/ MarkRevoked(c) \/ InsertDraft(c)
       \/ ProxyCall(c) \/ NextItem(c) \/ Upsert(c) \/ Emit(c) \/ SeekEdge(c) \/ InsertEdge(c)
       \/ Reply(c) \/ Stop(c)

\* What a sync that lists an item mirrors of it.
Mirrored(i) ==
  CASE provider = "gmail"    -> {<<"thread", One>>, <<"email", i>>}
    [] provider = "slack"    -> {<<"channel", One>>, <<"message", i>>}
    [] provider = "notion"   -> IF i % 2 = 0 THEN {<<"db", i>>} ELSE {<<"page", i>>, <<"note", i>>}
    [] provider = "calendar" -> {<<"event", i>>}
    [] provider = "drive"    -> {<<"file", i>>}
    [] OTHER                 -> {<<"booking", i>>}

\* However syncs overlap, stop half way and are repeated, an item is told of at
\* most once and only as an entity, and a sync that answers has mirrored all it
\* listed, the edge from a note to its page included, even when an earlier one
\* stopped between them (gmail.rs:90-92).  Two syncs may both tell of one note.
MirrorIsExact ==
  /\ \A k \in Keys : told[k] > 0 => k \in mirror
  /\ \A k \in Keys : k[1] # "note" => told[k] <= 1
  /\ \A c \in Clients : call[c].op = "done" => \A i \in call[c].seen :
       /\ Mirrored(i) \subseteq mirror
       /\ provider = "notion" /\ i % 2 = 1 => edges[i] > 0

\* A page is told of once and has one edge.  It does not hold when two syncs run
\* at once: ensure_mirror_edge asks first and inserts after (notion.rs:183).
NotesToldOnce == \A i \in Items : told[<<"note", i>>] <= 1 /\ edges[i] <= 1
=============================================================================
