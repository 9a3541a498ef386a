# A TLA+ model of the multi-client chat server

The server (`src/`) accepts TCP connections, hands ready ones to a pool of
worker threads through epoll, and runs the line-based commands of a chat:
accounts, sessions, rooms, messages, moderation. This directory models the parts
of it where threads, callbacks, failures and restarts make correctness hard to
test, checks them with TLC on small instances and proves part of the result with
TLAPS for every size.

Paths below are relative to the repository: `src/threadpool.c` is
`src/src/threadpool.c` in `PROJECT.json`.

## The system

| Component | State | Operations | Talks to |
|---|---|---|---|
| worker pool, `src/threadpool.c` | job queue, `thread_count`, `idle_count`, `marked_exits`, `threads[]`, `shutdown`, all under one mutex and condition variable | `threadpool_create`, `_submit` (scales up), `_maybe_shrink`, `_destroy`, the worker loop | called by the event loop, calls `handle_client` |
| event loop and connections, `src/server.c`, `handle_client` | the epoll set (one-shot), the batch of events, `conn_t` (buffer, `closing`, `me`) | accept, `epoll_wait`, dispatch, read, process lines, `epoll_rearm`, `conn_free` | pool, commands |
| commands, `process_line` in `src/client_handler.c` | none of its own | one `case` per command | registry, db, sessions, presence, roles |
| registry, `src/registry.c` | `client_list`, `room_list` (`registry_lock`), per room `members[]`, ring of messages, `admin_client` (`room_lock`), per client `current_room` (no lock) | `create_/delete_/find_` client and room, `room_add_/remove_member`, broadcast, history | commands of all workers |
| database, `src/db.c` | tables messages, users, sessions, rooms (`db_lock`) | one function per statement | registry, commands |
| sessions, `src/session.c` | the sessions table | create, check, rotate, revoke, expire | commands |
| roles, invitations, bans, mutes, blocks, receipts, `src/permission.c`, `invite.c`, `block.c`, `receipt.c` | one table each, with a database connection and a mutex of its own | set, check, remove | commands |
| typing, `src/presence.c` | 256 entries and the clock (`typing_lock`) | start, stop, clean up | commands, event loop |
| rate limiter, `rate_limit_check` | a token bucket per client | check | MSG and PM |
| parser, `src/protocol.c`, `pre_parse_srijal_commands` | the position of `strtok`, shared by all workers | parse a line | `process_line` |
| terminal client, `replies/client.c` | `running`, `current_room`, the socket, shared by two threads without a lock | read the user, read the server | the server |
| metrics, log, config, formatters, redis/pg stubs | small or none | | |

What makes it hard:

* **Concurrency.** Several workers run commands at once. `registry_lock` and
  `room_lock` are never held together, so every command that looks something up
  and then uses it has a gap; `current_room` and `admin_client` have no lock.
* **Ownership.** A connection is reachable from epoll, from the batch of events,
  from the queue and from a worker. Only the one-shot registration and the order
  of operations keep it in one place.
* **Two copies.** Messages are in a ring and in the database, a session in the
  database and at the peer; updates of the two are separate steps, and a stop of
  the server may come between them.
* **Several statements.** A command is several SQL statements, and nothing is held
  between them. No database connection waits when another one writes, so any of
  them may fail, and the results of several are not looked at.
* **Descriptors.** Broadcasts and private messages keep descriptors and clients
  across an unlock; both may be closed, freed and handed out again before the
  send.
* **Clocks.** Times are read before locks are taken.
* **Limits.** Rings, lists, buffers, tables and the pool are bounded, and their
  bounds are met in the middle of commands.

The properties that make the parts correct are listed with the modules below;
`PROJECT.json` lists the hazards line by line, and which property watches each.

## Modules

| Module | Models | Level |
|---|---|---|
| `ThreadPool` | `src/threadpool.c` | one step per critical section of the mutex, and one for the unlocked test at line 67 |
| `EventLoop` (extends `ThreadPool`) | `run_server`'s loop and `handle_client` around the pool | the pool's steps, with the read and the rearm separate |
| `Registry` | the registry and all commands that change it | one command per step |
| `RoomRace` | the room commands again | one step per critical section of `registry_lock` and `room_lock` |
| `RoomLog` | what a room's history promises: a window of the last messages | abstract |
| `History` | ring buffer, messages table, MSG/EDIT/DELETE, reload | one step per critical section; implements `RoomLog` |
| `Sessions` | the sessions table and the commands around it | one step per use of `db_lock` or `registry_lock` |
| `Delivery` | `room_broadcast`, `room_send_history`, PM, and descriptors that are reused | one step per critical section and per `send` |
| `Paging` | HISTORY by cursor, ROOMS and WHO by offset | one page per step |
| `Presence` | `src/presence.c`, TYPING, STOP_TYPING and the sweep of the event loop | reading the clock and using it are two steps |
| `RateLimit` | the token bucket, MSG and PM | one check per step, exact fractions |
| `Moderation` | the tables of roles, bans, mutes, blocks, invitations, receipts and their commands | one step per SQL statement |
| `Wire` | the read and line loops of `handle_client`, both parsers | reads of any size; a call of `strtok` begins and ends in two steps |
| `Terminal` | the two threads of `replies/client.c` | one step per access to what they share |
| `EventLoop_proofs` (of `ThreadPool`, too), `Registry_proofs`, `RoomRace_proofs`, `History_proofs`, `Sessions_proofs`, `Delivery_proofs` (and `Paging`), `Limits_proofs` (of `Presence`, `RateLimit` and `Moderation`), `Ends_proofs` (of `Terminal` and `Wire`) | theorems about these | TLAPS |
| `MC*` | the instances for TLC | |

`EventLoop` composes the pool with the connections. `Delivery` takes two facts
from other modules: a connection has one worker (`EventLoop`, `OneOwner`), and a
ring is the window of the last messages (`History`, `ImplementsLog`); `Wire` takes
the first. `MCLimits`, `MCEnds` and `MCDelivery` put modules that share no state
and no lock into one instance. Their variable `focus` (`side`) says which of them
a behaviour drives, so the state spaces add up instead of multiplying.

Definitions keep the names of the C functions, and commands have the names of
the protocol (`JOIN`, `KICK`, ...). A definition `X_Something` preceded by a
comment "Mutant" is a deliberately wrong version of `X`: with it in X's place TLC
finds the property named in `PROJECT.json` violated, which shows that the property
depends on that piece of the code.

### ThreadPool

State: `queue` (the connections of the job list), `idle_count`, `marked_exits`,
`thread_count`, `shutdown`, `threads` (the array that destroy joins), and for
each thread `wpc` (where it is) and `job`. `mgr` and `join_n` follow
`threadpool_destroy`. A worker is `start` -> (`waiting` -> `woken`)* -> `handling`
-> `after` -> ..., and ends `exited`, or `fault` when it dequeues from an empty
queue (lines 53-54 would follow a NULL pointer). Waiting releases the mutex and
may end spuriously. A signal wakes some waiting worker, chosen by TLC. The pool
takes any connection that is not in its queue already, also one that a worker still
has; that its only user, the loop, submits nothing else is proved (`LoopDrivesPool`).

`PromptWakeups` is an assumption about the machine, not the code: shrink requests
are five seconds apart, and TRUE says that no worker that was woken, by an earlier
request, a submission or spuriously, is still on its way out of its wait when the
next one is made. The proofs and the runs use it. With
`PromptWakeups = FALSE` TLC finds `NoNullDequeue` violated: `idle_count` still
counts the woken worker, so two requests together ask more workers to leave than
may, and one falls through to the dequeue (`threadpool.c:203`).

Properties: `NoNullDequeue`, `CountExact` (`thread_count` is the number of live
workers and never below the minimum), `NoLostWakeup` (no queued job while all
workers sleep), `JobServed` (every job is taken), and for shutdown
`DestroyReturns` and `DestroyJoinsAll`. The last one is limited to pools that did
not shrink. `mgr = "freed" => Live = {}` alone does not hold: workers that leave
are not taken out of `threads[]`, a later scale-up overwrites the entries of live
ones (`threadpool.c:163`), and destroy joins by index, although `server.c:495` says
"waits for all workers" and `HANDOVER.md:74` that the join "is safe with a snapshot
of `thread_count`".

### EventLoop

Adds the epoll set (`armed`), the batch (`events`), `closing`, `freed`, the place
of a worker inside `handle_client` (`hpc`), and the peers (`unread`, `hup`,
`full`: the buffer is full and holds no newline). Bytes are counted in portions:
what matters is whether something is left in the socket. `OneOwner` says that a
connection is in one pair of hands; `NoOrphan` that it is in some hands;
`DataRead` and `HangupNoticed` that what a peer sends, or its hang-up, is noticed
whatever moment of drain and rearm it falls into and however often submissions
fail. The exceptions in `DataRead` are those of the code: a connection marked
closing is not read any more, and neither is one whose buffer is full without a
newline. A closing connection whose submission fails stays in nobody's hands,
which is why `NoOrphan` leaves closing ones out. Sockets are plain here and in `Wire`:
bytes that TLS has decrypted ahead stay inside the SSL object (`conn_recv`,
`server.c:101-106`) and raise no event, so `DataRead`, `HangupNoticed`, `LineExecuted`
and `HangupCloses` say nothing of TLS connections.

### Registry and RoomRace

`Registry` models clients and rooms as heap objects with addresses that malloc
may hand out again, so that a dangling `current_room` or `admin_client` is
visible. Its invariants say that the pointers agree: `OwnedOnce` (connections and
`client_list`), `MembersCurrent` and `InRoomIsMember` (`members[]` and
`current_room`), `NoDanglingRoom`, `RoomNamesUnique`. They need a place for every
client in a room: ACCEPT does not look at the result of `room_add_member`
(`client_handler.c:1639`), and with a smaller `members[]` TLC finds `NoDanglingRoom`
violated. Commands that are refused
without an effect are no steps. Once a client points to a freed room nothing is
modelled any more: what the server does then is undefined.

`RoomRace` splits CREATE, JOIN, ACCEPT, LEAVE, MSG, KICK and disconnect at their
locks. `fault` records the first use of a freed room or client, and ends the
behaviour. `race_freedroom` shows that it happens; `race_overlap` checks what
holds under any overlap: `ListedAlive` (a room that can be found is never a
released one, and is released by one worker only) and the capacity of
`members[]`.

### RoomLog and History

`RoomLog` is the promise: posting appends a new message to a window of the last
`Cap`, a change keeps a message's place, id and author and never touches a deleted
one, and a room that is created again shows the last `Cap` stored rows.
`History` has the C ring (`history_count` with its fall-back at `WrapAt`, 1000000
in the code; `history_start`), the table, and each command as its two steps.
`ImplementsLog` is the refinement, with the window read the way
`room_send_history` reads it.

Every statement may fail, as in the code, up to the bound `FailsUntil` of the instance. A failed save leaves the
message in memory, with an id of its own (`registry.c:491`). A failed UPDATE of an EDIT
or a DELETE changes nothing and is not noticed (`UpdateFails`; `registry.c:630`, `656`).
A load that fails, ends early or finds no memory leaves a ring with the rows that were
read, none included (`Load`). (A failed `calloc` of the ring refuses the room, and is no
step here.) `create_room` is a new creation of the room by somebody's JOIN: writers that
were put out of the old room may still have their UPDATE to do, which needs the id and
the text only; a MSG caught between its two steps would go on with a freed room, which is
`RoomRace`'s subject. `restart` is a stop of the server anywhere and a new start.

Memory and table are compared by three invariants. `DeletionsShown`: at every moment a
message whose row is deleted is not replayed with its text. `ContentSurvives`, when no
command is in progress: what is replayed has the text and mark of its row.
`WindowSurvives`, then too: a reload would show the same messages in the same order.
They hold but for what the code does let happen, which history variables name:

* `loose`: messages whose row may lag because their UPDATE failed, because two EDITs of
  them overlapped (one user on two connections can write memory and table in opposite
  orders), or because the room was loaded before a late UPDATE came. The UPDATE of a
  DELETE that succeeds mends a message: memory and row then both show it deleted.
* `outrun`: those of them with a DELETE that was late, until the next load. It is the
  one way in which a row is deleted and the replay has the text.
* `crossed`: rows were not read, a save failed, or two MSGs crossed. `room_add_history`
  saves the row before it takes `room_lock` (`registry.c:490`), so the ids can be 1, 2
  and the ring 2, 1, and a reload then shows another order and, with a full ring, other
  messages.

A DELETE whose UPDATE failed is therefore undone by the next load: `room_delete_message`
marks the message in memory, ignores the result of `db_delete_message` and answers as
done; when the room is created again the text is back, against `db.c:279`, "client will
show [deleted]". TLC finds it with one user and one message, as a violation of "a message
shown as deleted is never shown with its text again"; the invariants say that it happens
to no message but those in `loose`. (The same comment says "retain text for audit"; the
statement below it overwrites the text, and so does the model.)

### Sessions

`sessions` is the table; `pc`, `arg`, `who` follow REGISTER, LOGIN and RECONNECT
through their critical sections. Tokens are numbered in the order they are made
(32 random bytes do not repeat). `DbFails` lets statements fail, `Restarts` lets
the server stop at any step. `owner`, `until`, `used` and `revoked` are history
variables for the properties. `TokenBindsUser` ties a login by token to the user
the token was made for; `RefusedAfterEnd` says that the check refuses
a token that has expired or was revoked; `TokenUsedOnce` is the promise of rotation.

### Delivery

A command is the list of steps it still has to take (`plan`): JOIN adds the member,
replays the ring, and broadcasts; MSG enters the ring and broadcasts; a disconnect
removes the member, broadcasts, deletes the client and closes. A JOIN or ACCEPT of a
member takes it out of its room first, where nobody is told (`JOIN_elsewhere`), also when
it comes back to the same one (`JOIN_again`). TYPING, STOP_TYPING, READ, STATUS, EDIT,
DELETE and PROMOTE are `NotifyOthers` or `NotifyAll`. Two commands that broadcast are not
among these shapes: KICK, which removes another client than its own and leaves out that
client's descriptor, and LOGOUT (LOGOUT_ALL), which deletes the client and, since its result
is ignored, leaves the connection open. Their effects on the lists are in `Registry`, and
KICK's steps in `RoomRace`.

A broadcast copies
descriptors (`Snapshot`), or finds no memory for them and tells nobody
(`BroadcastFails`), and sends to one after the other; `SendTo` reaches whoever
has the descriptor now, and may find a socket full, which the code
ignores. `MaxLost` bounds both failures. `NoGap`: no message falls between replay and
broadcast, unless a send to the member or the broadcast of the message failed. A joiner
may get a message twice, and a newer one before an older, but never not at all.
`OnlyLateStrangers` says exactly who can get what was not meant for it: somebody
accepted after the descriptors were copied, and only if a recipient closed; of a PM,
only if its target was freed between the look-up and the send.

### Paging

`HistoryComplete`: pages by cursor show every message that was there at the first
page, once and in order, while messages arrive. A failed query looks like the
end (`HistoryFails`), and the cursor 0 of an empty page starts again at the latest.
The query's result is given by what it is, the highest ids in order
(`db_load_history_before` is the set of such sequences, with one member). `shown` is
what the client has put together.
`ListComplete`: pages by offset, of an array that closes its gaps, show nothing
twice unless it was removed and put back. An offset is stale when an entry before it was
removed: the entry it pointed to has moved in front of it (`skipped`), and is missed.
`ListComplete` says that nothing else that stayed is. A reply line that is full cuts the page (`Shortened`), and the client goes
on from what it got.

### Presence

`call[w]` holds the time a TYPING read before it waited for `typing_lock`; `sweep`
and `swept_at` do the same for the event loop. `Lag` bounds the wait for the lock
and `LoopLate` how late the loop may run. `StaleBound`: nobody is shown as typing for
longer than debounce + sweep interval + delays. `TypingSpaced`: two broadcasts for
a user, with no stop between them, are the rate limit apart, less `Lag`;
`SuppressedForCause`: a broadcast is suppressed only for these reasons or because the
table is full. `StartedWhileActive` ties the two fields of an entry together.

### RateLimit

Time and tokens in fractions of 1/`Scale`. `BurstBound`: in every interval a client
gets through at most the full bucket and what the interval adds. `BucketExact`: the
bucket's level is what the tightest of these bounds leaves, so the limiter refuses
nothing else. `paid` and `paidBefore` are history variables: what a client paid from a
tick on is a difference, no sum.

### Moderation

`task[w]` is the command of a worker between two statements. Any statement may fail
(`MayFail`): a failed read is MEMBER, "not invited"; a failed write writes nothing
and the code goes on. `Restarted` drops all tasks at any time. `OwnerRemains`: a
room keeps an owner, unless a DEMOTE wrote after its author was demoted
(`overtaken`); `NeverRaised`: DEMOTE does not raise a role, unless the role changed
between its read and its write; `InvitedOnce`: an invitation lets its user in once,
unless an ACCEPT took nothing away. The exceptions are what the code does:
the model shows that there are no others.

### Wire

A line is a keyword and a number of words; a peer begins a line, sends its words and
its newline one by one (`BeginLine`, `ContinueLine`), and may hang up anywhere. What
has arrived is read in any portions into a buffer of `BufSize`. `strtok` reads its static position when a call begins and writes
it when it ends (`cursor`); a position inside a line of another connection gives that
line's words, a position left behind in a buffer that was compacted meanwhile gives
`Junk`. `CommandsInOrder`: the commands of a connection are its lines, once and in
order. `ExactUnlessMixed`: they have their own arguments unless two lines were parsed
at once, and `OwnArguments` is the claim without that exception, which
`wire_mixed` refutes. `LineExecuted` and `HangupCloses` are liveness.

### Terminal

`main` and `receiver_thread` share `running` and `current_room`. A line of the server
may arrive in two halves, and both are then handled as lines. `DisconnectNoticed`: a
lost server is noticed, also when its last line is cut. `EndsWhenStopped` and
`AtMostOneLate`: main ends unless it waits for the user, and then sends at most one
more line.

## Runs

| Run | Checks | Shows |
|---|---|---|
| `pool` | `TypeOK`, `NoNullDequeue`, `CountExact`, `NoLostWakeup`, `DestroyJoinsAll`, `JobServed`, `DestroyReturns` | counters exact, no NULL dequeue, no lost wake-up, every job served, shutdown returns after the workers |
| `loop` | `ConnectionsOwned` (`LoopTypeOK`, `OneOwner`, `NoOrphan`), `DataRead`, `HangupNoticed` | one owner, nothing orphaned, data and hang-ups noticed |
| `registry` | `OwnedOnce`, `PointersAgree` (`TypeOK`, `MembersCurrent`, `InRoomIsMember`, `RoomNamesUnique`), `NoDanglingRoom` | pointers agree after every command, with double logins and at the limits of the lists |
| `race_overlap` | `RoomsSafe` (`TypeOK`, `ListedAlive`) | what stays safe when commands overlap |
| `race_freedroom` (violation) | `NoFreedRoomUsed` | JOIN uses the room that a LEAVE releases |
| `history` | `StoreAgrees` (`TypeOK`, `ContentSurvives`), `DeletionsShown`, `WindowSurvives`, `ImplementsLog` | the ring implements the window, also across wraps and the fall-back; with failing statements, a double login, re-creation and restarts, memory and table disagree only where named |
| `sessions` | `TokensSound` (`TypeOK`, `TokenBindsUser`), `RefusedAfterEnd` | a token works for its user only, and not after its end |
| `sessions_twice` (violation) | `TokenUsedOnce` | two RECONNECTs use one token |
| `limits` | of `Presence`: `TypingTableSound` (`PresenceTypeOK`, `StartedWhileActive`), `StaleBound`, `TypingSpaced`, `SuppressedForCause`; of `RateLimit`: `PaysExactly` (`RateTypeOK`, `BurstBound`, `BucketExact`); of `Moderation`: `ModerationTypeOK`, `OwnerRemains`, `NeverRaised`, `InvitedOnce` | what limits a user works under overlap, failure and restart |
| `ends` | of `Wire`: `LinesIntact` (`WireTypeOK`, `CommandsInOrder`), `ExactUnlessMixed`, `LineExecuted`, `HangupCloses`; of `Terminal`: `StopsSending` (`TerminalTypeOK`, `AtMostOneLate`), `DisconnectNoticed`, `EndsWhenStopped` | both ends of a connection cut, order and end it right |
| `wire_mixed` (violation) | `OwnArguments` | two lines parsed at once mix their words |
| `delivery` | of `Delivery`: `NothingMissed` (`DeliveryTypeOK`, `NoGap`), `OnlyLateStrangers`; of `Paging`: `PagesFit` (`PagingTypeOK`, `HistoryComplete`), `ListComplete` | no message is missed; who can receive what was not meant for it; pages fit together |

In brackets, the parts of an invariant that a configuration names as one.
Each violation is a finding in `PROJECT.json` that quotes the line of the
repository it contradicts.

**Bounds.** The pool has a minimum of 1 and a maximum of 2 workers, 4 thread
identities so that workers leave and new ones come, and 2 connections. The loop has
2 connections, 2 workers and 2 sends, so that bytes arrive before and after a drain
and during the handling of another connection. The registry has 3 connections for 2
places in `client_list` (the third is refused, or takes the place and the address of
one that left), 2 users, 2 room names, 2 room addresses, and a place in a room for
every client. `RoomRace` has 2 clients and 2 rooms: each fault is between two workers.
The ring has 2 slots and a fall-back at 3; `history` has 4 messages, so that it wraps and
falls back, and one user on two connections, so that EDITs overlap each other and a DELETE
crosses them; statements may fail until the second message is saved (`FailsUntil`), which
lets both saves, any UPDATE of the first message and the loads of it fail, with the
messages that follow it overwriting what is left. Sessions have 3 connections for 2 clients, of which 2 have a command in
progress, 2 users, 2 tokens (3 in `sessions_twice`) and a clock that passes the
lifetime of a token made at the start but not of a later one, so that tokens expire
while commands are in progress.

In `limits`, two users share a typing table of one entry, so that it is full for
the other, with the code's intervals (2, 3 and 5 seconds) and two sweeps within the
horizon of 14 seconds; the bucket of 5 tokens, with ticks of half a second, is emptied, refused and
refilled within 8 ticks; 2 users and 2 workers with 5 commands reach two owners
that demote each other, and an invitation that is accepted twice. In `ends`, the
buffer holds 4 words, so that one of the lines does not fit; 2 lines in total come
over one connection or over both; the terminal client gets and sends 2 lines. In
`delivery`, 3 connections share 2 descriptors, so that one is reused, the ring has 1
slot and is overwritten, 4 items are sent, 2 connections or broadcasts fail; pages of 1, 2 or the capped 3 entries
are asked of 5 ids and of 3 entries with 5 changes, so that pages end inside, at and
beyond the end.

**Symmetry and views.** Symmetry is used only where all properties are safety
properties, and only over sets whose members are interchangeable. Two views leave
out what no step and no checked property reads: in `MCRegistry` fields of freed
objects and the bans, in `MCRoomRace` pointers left by finished commands.

**Deadlock** is checked except in `Sessions`, `MCEnds` and `MCDelivery`, where the
bounds on tokens, lines, items and changes, and the end of the process, end
behaviours. `Halt` steps stand for the states after `threadpool_destroy`, after
a fault, or when all clients are gone.

**Fairness.** `FairSpec` and `FairLoopSpec` assume weak fairness of each worker and,
in the loop, of `epoll_wait`: POSIX threads are scheduled, the mutex is held for
bounded sections, and the loop calls `epoll_wait` as long as the server runs. The
dispatch of each connection is strongly fair: the `malloc` of `threadpool_submit`
may fail again and again for a connection, but not every time for ever.
`WireFairness` is weak fairness of the service of each connection: that an event is
raised and a worker comes is what `loop` and `pool` show (`DataRead`,
`HangupNoticed`, `JobServed`). `TerminalFairness` is weak fairness of the two threads
of the client, as long as the process runs. Peers, users, the server as the client
sees it, accepts, shrink requests and shutdown are not fair.

## Seen while reading, not asked by a run

* Sessions: `session_revoke_all` only deletes expired rows, so LOGOUT_ALL leaves the
  user's tokens valid (`src/session.c:117`; the model has it so). A server that
  stops between the two halves of a rotation leaves the user without a token.
* Rooms: JOIN asks for no invitation, also for a private room. JOIN, BAN and CREATE
  can leave rooms without members. Nothing resets `admin_client` when the admin
  leaves. Log lines after `room_delete_if_empty` and `delete_client` read freed
  objects. `db_delete_message` overwrites the text its comment (`db.c:279`) says is
  retained for audit.
* Moderation: bans, mutes and blocks are recorded and never looked up (`ban_check`,
  `mute_check` and `block_check` have no caller). UNMUTE needs no role. The results
  of `permission_set_role` and `invite_accept` are ignored: DEMOTED is replied though
  nothing was written, and an invitation that was not removed can be used again.
  It is used up even if its room is gone. READ takes any message id.
* Typing: `presence.h:15` says "max 1 TYPING per 2 seconds"; a STOP_TYPING in between
  lifts the limit. No STOP_TYPING is sent when an indicator expires, and the debounce
  counts from the start of typing, not from the last TYPING. MSG does not stop an
  indicator. Entries are never freed.
* Rate limit: the bucket belongs to the connection's client, so a new login is a full
  bucket. An empty MSG and a PM to nobody cost a token.
* Connections: complete lines still in the buffer are dropped at a hang-up. A line
  longer than the buffer leaves a connection unread until it hangs up. HEALTH and
  READY are recognised and then overridden by the second parser. The result of
  LOGOUT is ignored, so the connection stays. `conn_send` retries EAGAIN for ever; the
  `send` of broadcasts, replays and PMs ignores it, and bypasses TLS.
* Lists: ROOMS and WHO without arguments are cut by the line buffer.
* Terminal client: `current_room` is wrong after a refused JOIN, a BAN, a late notice
  or a line in two halves. A failed TLS handshake goes on in plain text although
  `client.c:53` says "disconnect, don't fall back". SIGPIPE is not ignored. main frees
  the TLS object under the detached receiver. After a disconnect main stays in
  `fgets` until the user presses return.

## Proofs

`EventLoop_proofs` proves of the pool, used by anybody, for any numbers of
threads, connections, minimum and maximum, and under `PromptWakeups`:

* `PoolCorrect`: `Spec => []PoolInv`, from which follow
* `PoolTypes` (`TypeOK`), `NeverDequeuesNull` (`NoNullDequeue`),
  `NeverAsleepOnWork` (`NoLostWakeup`) and `CountsWorkers` (`CountExact`), and
* `DestroyWaits` (`DestroyJoinsAll`), with `JoinInv`.

None of these is inductive alone. `PoolInv` adds `IdleInv` (`idle_count` is the
number of workers inside the wait loop), `CountInv` (the counter equals the live
workers until shutdown has drained the queue), `MarkInv` (exit requests never
exceed the excess over the minimum) and `AwakeInv` (while there is a request or a
shutdown nobody waits). The argument: `MarkInv` makes every worker that wakes for
a request entitled to leave, so none falls through to the dequeue; `AwakeInv`
makes requests impossible to sleep through; with both, a queued job and a pool
that sleeps exclude each other. The proof has one step per action, after lemmas
on the cardinality of the sets of idle and live workers when one of them moves.
`JoinInv` says that a `threads[]` still as create filled it means that nobody else
was ever created, and that the snapshot destroy takes is never below the counter.

Of the loop it proves, for any connections, workers and sends, with and without
failing submissions, and under `PromptWakeups`, that a connection is in one pair of
hands (`ConnectionsAlwaysOwned`, for `ConnectionsOwned`). `ConnectionsOwned` counts
owners, and counts do not compose; `LoopInv` says the same without counting: `Single`
(no connection is twice in one place), `Apart` (none is in two of the epoll set, the
batch, the queue and a worker's hands, and a freed one is in none) and `Somewhere` (while
the server runs one that is not closing is in one). It contains `PoolInv`, because where
a queued connection goes depends on the pool. `LoopDrivesPool` is a refinement: every
behaviour of the loop is a behaviour of `ThreadPool`'s `Spec` in the pool's variables. It
needs `Apart`, from which a dispatched connection is not in the queue. So
the theorems on the pool, proved of a pool used by anybody, hold of it under
`run_server`.

`Limits_proofs` proves of `Presence`, for any users, workers, table and intervals with
`Lag < TYPING_DEBOUNCE_SEC` and `2 * Lag <= SweepEvery` (`PresenceAssumption`):
`TableSound` (`TypingTableSound`),
`IndicatorExpires` (`StaleBound`), `BroadcastsSpaced` (`TypingSpaced`) and
`SuppressionHasCause` (`SuppressedForCause`). `PresenceInv` adds `CallsFresh` and
`ClockOK` (how old the times are that callers and the sweep hold, phase by phase) and
`EntriesOK`: no start is older than the last sweep leaves behind (`Oldest`), and an
entry's time is at most `Lag` before its broadcast. The bound on `Lag` is needed: a
caller that waits longer than the debounce period would switch on an indicator that
the sweep has already passed.

Of `Moderation` it proves, for any users, workers and commands, failing statements
and restarts included: `RolesSound` (`ModerationTypeOK`), `OwnerKept`
(`OwnerRemains`), `InvitationUsedOnce` (`InvitedOnce`) and `DemoteLowers`
(`NeverRaised`). `ModerationInv` adds `DemotesOK`: a DEMOTE past its checks is of
somebody else than its author, who is therefore still an owner after the write unless
overtaken. `Fresh` adds that the role a DEMOTE has read is the current one until
another write makes it stale.

Of `RateLimit` it proves `BucketPaysExactly` (`PaysExactly`), for any burst, refill, cost,
resolution and clients. `LevelOK` says it without a minimum: the level is at most what
each interval since the client's creation has left (`Left`), and equals it for one. A
charge lowers the level and all bounds by the cost, a tick raises all by the refill, and
where the full bucket cuts the level the interval that begins with the new tick is the
one it equals. `BucketsOK` is needed for the client that comes and goes: a new bucket
must not find the charges of the old one.

`Registry_proofs` proves, for any connections, users, names, addresses and capacities,
`RegistryInvariant` and `ClientsOwnedOnce` (`OwnedOnce`). `RegistryInv` adds to the parts of
the properties that what is listed has a name and that a room with members is listed
(`Occupied`): malloc hands out addresses again, and a new room must not find the members
of the old one. The other direction, that a client that points to a room is one of its
members, is broken by one command, an ACCEPT into a full room (`AcceptsFull`;
`client_handler.c:1639`), and by no other: `PointersAgreeUnlessFull` proves `PointersAgree`
and `NoDanglingRoom` of every behaviour without such a step, whatever the capacities. That
is the statement for the default configuration, with 64 clients and 16 members to
a room (`config.h:9-11`). Where `server.conf` gives rooms a place for every client, as
in the run, no such step exists, and `PointersAlwaysAgree` and `NeverDanglingRoom`
state the two properties without the exception.

`RoomRace_proofs` proves `RoomsAreSafe` (`RoomsSafe`) for any clients, rooms and names.
`RaceInv` adds `Pointers` (what a command holds at each place: a room, a name or nothing)
and `OneState` (an address is fresh, in use or released, and one that a worker is about to
release cannot be allocated). The argument for a single release: `delete_room` takes the
room out of `room_list` under `registry_lock` and tells its caller whether it was there,
so of the workers that saw it empty one goes on to `room_destroy`.

`History_proofs` proves, for any capacity and fall-back, any writers, of one user or of
many, and any messages, with failing statements, re-creation and restarts, and without a
further assumption:

* `HistoryInvariant`: `HistoryInv` adds to the types that rows are numbered and deleted
  ones have lost their text (`TableOK`), that the ring begins at slot 0 until it is full and
  shows each id once (`RingOK`), that a MSG between its save and its entry has an id nobody
  else has (`ArgsOK`), that the author of a message is the same in ring, table and
  commands (`SendersOK`), and that unless commands crossed or a load was cut short the ring
  is the end of the table but for the row still to be entered (`OrderOK`).
* `RingImplementsLog` (`ImplementsLog`): the refinement of `RoomLog`, step by step. Its core
  is three lemmas on how the window moves when a slot is overwritten (`WindowPushed`, with
  the arithmetic modulo `Cap` and the fall-back at `WrapAt`), changed (`WindowChanged`) and
  reloaded (`WindowLoaded`).
* `StoreAlwaysAgrees` (`StoreAgrees`), `DeletionsAlwaysShown` (`DeletionsShown`) and
  `WindowAlwaysSurvives` (`WindowSurvives`), from `ContentInvariant`. `ContentInv` is the
  strengthening: a message shown that is not loose is its row, or somebody is about to make
  it so. A deleted one equals its row or a DELETE is in progress; any other has a row that
  is not deleted, no DELETE in progress, and the text of the last EDIT (`Agree`). `Marked`
  holds of loose ones too, unless outrun: a message whose row is deleted, or is about to
  be, is shown so, since memory is marked first (`registry.c:651-656`). A DELETE that
  reaches its row therefore mends it.

`Sessions_proofs` proves, for any connections, users, capacity and lifetime, with failing
statements and restarts, `TokensAreSound` (`TokensSound`) and the action property
`TokensRefusedAfterEnd` (`RefusedAfterEnd`). `SessionInv` adds `RowsAsMade` (a row says what
was decided when its token was made), `RevokedGone` (no statement puts a revoked row back),
`WhoIsOwner` (from the check on, a RECONNECT has the user its token was made for, also when
the row has gone since) and `LoggedInAsWho`.

`Delivery_proofs` proves, for any connections, descriptors, items and capacity of the ring,
with and without full sockets and missing memory, `NoMessageMissed` (`NothingMissed`) and `StrangersAreLate`
(`OnlyLateStrangers`). Neither property is inductive. `DeliveryInv` adds:

* `Types` and `Lives`: which plans can occur (`Plans`), and
  the plan of a connection says whether its descriptor is open, its client listed, and
  whether it can be a member.
* `Owns`: an item is the item of one command, and nobody has heard it before its
  recipients are determined.
* `Recorded` and `Snapshots`: recipients had been accepted when they were determined, and
  a copied descriptor is now that of its recipient, or nobody's, or that of a connection
  accepted since. A descriptor is handed out again only once it is closed, which is why the
  stranger is late and the recipient gone.
* `Covered`: what is in the ring, a member past its replay has heard, was replayed, or is
  about to be told by the author (`OnTheWay`), unless its broadcast failed. JOIN adds the member before the replay
  and MSG enters the ring before the descriptors are copied; `Covered` fails with either
  order swapped.

Of `Paging` the same module proves, for any limits, defaults, entries and messages:
`ListsComplete` (`ListComplete`), from `ListInv`: what is still to come was not shown
(`Unshown`), and what stayed and is before the offset was shown or has moved there
(`Beginning`); and `HistoryPagesFit` (`PagesFit`), with `CursorInv`: what there was at the
first page is shown or below the cursor, and what is below the cursor was there, since
new messages get higher ids. That a page by offset ends the list only at the end of
the array rests on the limit being positive and on a cut reply having at least one
entry (`PageShown`).

`Ends_proofs` proves `LinesStayIntact` (`LinesIntact`) and `OwnArgumentsUnlessMixed`
(`ExactUnlessMixed`) of `Wire`, for any peers, lines and any size of the buffer. That the
next command is the next line needs that what was removed from the buffer ends with the
newline of the last line executed (`BufferOK`), and that between two newlines of a stream
is one line, whatever the peer sends next (`StreamsOK`); then the first newline in the
buffer ends the line that is due (`FrontLine`). For the arguments, `ParserOK`: a worker
during whose line no other was parsed is alone in the parser, and the position of `strtok`
is where its last call left it (`Behind`).

Of `Terminal` it proves `TerminalStops` (`StopsSending`) for any rooms and numbers of lines.
`LateOK`: a line is late only once `running` is cleared, and `main` is then past the
input and comes back to the test, which sends it away. It needs that `running` is never
set again, by any line the server sends or cuts in two (`LinesOK`).

**Only model-checked.** Liveness under fairness (`JobServed`, `DestroyReturns`, `DataRead`,
`HangupNoticed`, `LineExecuted`, `HangupCloses`, `DisconnectNoticed`, `EndsWhenStopped`) is
out of reach of the prover. Every invariant and action property of a passing run has a
theorem.

## Not modelled

Formatting, I/O and TLS as such, configuration, logging, metrics, password hashing,
and the redis and postgres stubs, which the server only initialises as disabled.
Functions without a caller: the login rate limiter, `registry_load_persistent_rooms`,
`db_search_messages`, `session_create`, `session_validate`, `session_refresh`,
`permission_remove`, `invite_remove`, `ban_remove`, `receipt_is_read`,
`presence_is_typing`, and the checks and lists of `block.c`. Failure of
`pthread_create`. The status field (its broadcast is in `Delivery`). What the
terminal client displays. The rounding of doubles in the rate limiter. `conn_send`'s
endless retry is a hazard without a property: the code states no bound.

## Plan

Done: pool, event loop, registry, lock-level races, history, sessions, delivery,
pages, typing, rate limit, moderation, parser, terminal client; proofs of the pool and
the loop, the registry, the races, history with its refinement, sessions, delivery,
pages, typing, the rate limit, moderation, the parser and the terminal client. Next, in
this order:

1. `RoomRace`: BAN, PROMOTE and INVITE at lock level, with the agreement of
   `current_room` and `members[]` under overlap; KICK and LOGOUT in `Delivery`.
2. The stale `admin_client`: who may pass the admin test.
