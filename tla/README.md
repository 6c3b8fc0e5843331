# Verification of the WebSocket chat room

TLA+ models of the chat server in `src/`, the TLC runs that check them on small
instances, and the theorems about them that TLAPS proves for every instance.
`PROJECT.json` lists components, runs, mutants, hazards, findings, theorems and
the source lines that each definition models.

Paths below are short: `WSServPoint` is
`src/src/main/java/dw/webSocket/WSServPoint.java`, `OfflineMessageService`,
`UserSession` and the servlets are under the same `dw/`, the *page* is
`src/web/WEB-INF/jsp/websocketChatroom.jsp`.

## 1. The system

One Tomcat process serves a WebSocket endpoint, a few servlets and JSP pages.
Rooms and users are rows in MySQL; message histories and offline queues are
lists in Redis; who is connected and who is in which room is in the memory of
the endpoint.

| Component | State | Operations | Talks to |
|---|---|---|---|
| **Connection registry** (`WSServPoint`) | the concurrent maps `userSessions`, `usernameToSession`, `rooms`; `roomId` and `lastHeartbeat` in each `UserSession` | `onOpen`, `onClose`, `SWITCH_ROOM`, heartbeat check | everything below reads it |
| **Heartbeat** (`WSServPoint` 37-61) | `lastHeartbeat`, two scheduled tasks | PING task, heartbeat check, `PONG` | closes sessions, which runs `onClose` on the scheduler's thread |
| **Room chat** (`WSServPoint` 126-155, 264-271, 336-348) | the room sets, the Redis list `chat:room:<id>` | `CHAT`, join and leave broadcasts, replay of the 50 newest messages | registry, offline store |
| **Private chat** (`WSServPoint` 110-124, 272-320) | Redis lists `chat:offline:<user>` and `chat:private:<a>:<b>` | `PRIVATE`, replay of the queue at login, `LOAD_PRIVATE_HISTORY` | registry, offline store |
| **Offline store** (`OfflineMessageService`, `RedisUtil`) | Redis keys with a 7 day TTL | save, get, trim to 500 | Redis |
| **Chat page** (the page, `privateChat.jsp`) | socket, reconnect counter, current room, ids already shown, unread counts | connect, reconnect with back-off, switch, send, de-duplicate | endpoint |
| **Accounts and tokens** (`LoginServlet`, `RegisterServlet`, `UserDAO`, `JWTUtil`) | table `user`, signed tokens | register, log in, validate | MySQL |
| **Room administration** (`RoomServlet`, `RoomDAO`) | table `room` | list, create, delete by the creator | MySQL |
| **SSE chat** (`SseChatServlet`) | client lists per room | subscribe, post, heartbeat | none of the above |

`MessageDAO`, `WSEndpointConfigurator`, `RoomMember` and
`OfflineMessageService.addMsgId`/`hasMsgId` have no caller.

### What runs concurrently

* Each WebSocket session has its handlers run one after another, on container
  threads; handlers of different sessions run at the same time.
* `Session.close()` runs `onClose` of the closed session **on the thread of the
  caller**: an `onOpen` that replaces the user's old session, the heartbeat
  check, or a container thread whose read or write failed. So `onClose(s)` runs
  beside an `onOpen(s)` or `onMessage(s)` still under way.
* A two-thread scheduler runs the heartbeat check and the PING task.
* Every map is a `ConcurrentHashMap`, and no handler holds a lock across two of
  its accesses. `roomId` and `lastHeartbeat` are plain fields that one thread
  writes and others read; a stale read of one is the same as an earlier
  interleaving of the reader.

### What can fail

* A blocking `sendText` throws `IOException`, which the code catches, or, when
  another thread is writing to that session or it is closed, the unchecked
  `IllegalStateException`, which `broadcastToRoom` and `sendPrivate` do not
  catch. It ends the handler; out of `onOpen` it also closes the session, and
  out of `onMessage` the container may close it (Tomcat 9 does) or go on: the
  models allow both.
* A Redis command fails, before it was executed or after; its callers catch the
  `JedisException` and go on. An SQL statement fails likewise; the DAO logs it
  and answers `null` or `false`.
* A client stops answering, disconnects or reconnects at any time.

### What makes it correct

* *Registry*: a session is in at most one room, and in the one that its
  `UserSession` names; the maps agree; a closed session does not stay in a map.
* *Heartbeat*: the dead are evicted in bounded time, the responsive never.
* *Room chat*: a member gets every message of the room from the history it reads
  on, with nothing lost between history and live messages, and knows who is
  there.
* *Private chat*: a message is sent or queued; an online session has all of the
  user's messages, but for races that are known.
* *Offline store*: newest 500 kept in push order, nothing kept for ever, both
  users of a conversation reach one list.
* *Page*: what is typed in a room is posted in that room; no message is shown
  twice or under another room, none is missing from a view; a private message
  that is not shown is counted; reconnection gives up after 10 attempts.
* *Accounts*: a name is registered once and means one account. *Rooms*: who shows a
  token is the only one to delete his room, a room has its own history. *SSE*: a client that is gone costs
  the others nothing and is removed.

## 2. Modules

| Module | What it is |
|---|---|
| `SessionRegistry` | the three maps, one action per access to them |
| `RoomMembership` | abstract: where sessions are, one move per step |
| `RoomChat` | one room: save, broadcast, history replay, joins, leaves and the user lists they carry |
| `Heartbeat` | the two scheduled tasks over a discrete clock |
| `PrivateChat` | messages to one user and its offline queue |
| `ChatClient` | the page of one user, composed with the server's session of its connection by two channels |
| `RedisStore` | the calls of `OfflineMessageService`, one action per Redis command |
| `BoundedLog` | abstract: what a message list promises its readers |
| `Directory` | accounts and rooms, one action per SQL statement |
| `SseChat` | the event stream of one room, over the container's threads |
| `MC...` | what TLC needs beside: symmetry sets |
| `...Proofs` | the theorems about the module they are named after |

A module contains mutants of some of its definitions, marked `MUTANT`: each is
the definition with a plausible bug. They are part of no specification; with a
mutant put in place of the definition, TLC finds the property that
`PROJECT.json` names violated, so the property depends on the code's being as it
is.

Variables marked as history variables are in no source line: they record what a
property speaks about, and no guard reads them.

### SessionRegistry

`pc[s]` follows `onOpen(s)` and then the messages of session `s`, `closePc[s]`
follows `onClose(s)`, `reaperPc` follows the heartbeat check. Actions in the
order of the code:

* `onOpen`: `Reject` (no valid token) or `Connect` (`usernameToSession.put`),
  `CloseOld`, `DropOld` (`userSessions.remove`), `LeaveOld`, `Register`,
  `Enter`, `Announce`. `CloseOld` starts `onClose` of the old session and
  `DropOld` waits for it ("awaitOld"), as the call does; when somebody else is
  closing it, `close()` returns at once and `onOpen` goes on beside `onClose`.
* `SWITCH_ROOM`: `SwitchRoom`, `Leave`, `AnnounceLeave` or `LeaveCut`, `SetRoom`,
  `Join`.
* `onClose`: `CloseRemove`, `CloseCurrent` (compare), `CloseUnmap` (remove by
  key), `CloseLeave`.
* heartbeat check: `Reap` (the filter closes the session) and `ReapRemove`
  (`removeIf` removes the entry). Whether a session is too old is left open
  here; `Heartbeat` is about that.

`Close` and `ContainerClose` model the container: `close()` is a
compare-and-set whose winner runs `onClose`. Any broadcast may throw. The history
variables say under which circumstances a property makes no claim: `raced`, users
of whom two handlers have overlapped; `cut`, sessions whose last `SWITCH_ROOM`
ended in its leave broadcast; `strayed`, sessions that somebody else than their
`onClose` unregistered, or that entered a room after they were closed.

A room without members is removed from `rooms` by nobody, so an absent room and
an empty one are the same. The announcement that follows a `CloseLeave` changes
no map and is part of it.

### RoomChat

One room. `pc[s]`, `cur[s]` and `todo[s]` are the thread of session `s`, what it
is handling and whom its broadcast still has to serve. A broadcast iterates over
the live set: a session that enters or leaves meanwhile may or may not be met
(`Enter`, `Exit`). `writing[s]` is the session that a `sendText` of `s` is in the
middle of; `SendFault` and `ReplayFault` are the collision of two senders.
Messages are numbered in the order of their `lpush`, so `Recent` is what `lrange
0 .. Limit-1` returns; the trim to 500 and the TTL are in `RedisStore`.

Joins and leaves carry a user list: `ListUsers` is `getUserList`, which runs
after the change and before the broadcast, and `shown[t]` is the last list that
member `t` received. `behind` and `late` keep track of members to whom a change
was not announced (a user who reconnects is not announced, a broadcast may be cut
short) or whose list another change had overtaken. Closing is `CloseOut`, on the
thread of `s`; the registry around it is `SessionRegistry`.

### Heartbeat

A tick is 5 s, the common divisor of the three periods. The timers, the ages and
the PINGs under way advance together in `Tick`, which waits for a due task and
for a PONG that is due: the assumptions are that the scheduler is punctual and
that a responsive client answers within `Latency` ticks. `pinged` are the sessions
that were sent a PING.

### PrivateChat

The messages to one user, each handled on its sender's thread: `Take`, `Lookup`,
`Send`, `Enqueue`. And the user's connections, with the steps of
`SessionRegistry` as far as they concern one user and no room: `onOpen` is
`Connect`, `CloseOld`, `DropOld`, `Register`, `Pull`, `Replay`, `ReplayDone`;
`onClose` is `CloseRemove`, `CloseCurrent`, `CloseUnmap`; `Break` and `Close` are
the container's, `Reclaim` the heartbeat check's. One action is one access to a
shared map, so that the removal by key of `onClose` can hit the mapping of a
newer session, and the user can have two open sessions after it.

`strayed` are the sessions that such a removal unmapped, or whose closing was
still pending when a third one connected: `MissedOnlyByRace` needs to know them.
The queue is a set: it is read and never emptied, so it grows only. The save in the
history, which comes before the lookup and whose failure changes nothing here, the
echo to the sender and `LOAD_PRIVATE_HISTORY` are in `ChatClient`.

### ChatClient

The page's variables have the names they have in the script; `target` is
`currentPrivateTarget`, or `NULL` in a room view, and `timer` is the pending
`setTimeout(connect)`. Its handlers are `LoadRooms`, `Opened`, `OnClose` (of a
socket that is `Refused` or `Drop`s), `Reconnect`, `Logout`, `SwitchRoom`,
`SelectPrivateChat`, `SendMsg` and `HandleMessage`.

`up` and `down` are the two directions of the socket, in order and without loss
while the connection stands; what is under way is lost with it, as is what a
closed session is sent. A frame that the server still reads is one that it took
before the break.

The server's part is the session of the connection: `roomOf` is
`UserSession.roomId`, `memberOf` the rooms whose set contains it. Its handlers
are `HandleSwitch` and `HandleHistory` (entering a room and reading its history,
with other members' broadcasts in between), `HandleSwitchFault`, `HandleLoad`,
`HandleChat`, `HandlePrivate`. `OtherChat` and `FriendPrivate` are messages of
other users; `cast[m]` says where their broadcast stands for this session: it is
due, it may still come across the session if that enters the room in time, or it
has picked the session before that left the room ("late").

Of a conversation the server keeps two things: `posted` are the messages it has
handled, `log` is the list in Redis. They differ when the save fails, which the
server logs and survives (`Push`): the message is sent all the same. A read
returns the newest `Limit` messages of the list (`Recent`), or the first of them
before a send fails (`Replay`). The offline queue comes as far as it was pushed
and sent (`Welcome`).

Frames that change neither the messages of a view nor the rooms (SYSTEM, PING,
ACK) are left out.

### RedisStore and BoundedLog

A call goes through `Start`, `GetJedis` (a connection of the pool), `Type`, `Del`
when the key holds another type, `Push`, `Expire` and `Trim`, or `Range_`; the
variants of the four methods differ in the key, in `Trimmed` (queues are not) and
in what a read returns (`Returned`). After every command the reply may be lost
(`Then`), before every one it may fail (`Fail`); either way the connection goes
back to the pool, as try-with-resources does. `TimeOut` is the end of the seven
days. The lists of rooms are handled by the same commands as those of
conversations and are left out.

The key of a conversation is `Joined` of its two users, in the order of
`compareTo`. `Joined` stands for the string with `:` between the names and need
not tell two pairs apart, as names may contain `:`. `began[c]` has the users of
call `c`, which its key no longer gives away.

`BoundedLog` promises the reader of a list that the newest message comes first,
that messages stay in the order of their pushes, and that none but the oldest go
while fewer than 500 newer ones are there, unless the whole list goes.

### Directory

A request is one of `/register` (`Register`, `CheckName`, `InsertUser`), `/login`
(`Login`, `IssueToken`), `/room/create` (`CreateRoom`) and `/room/delete`
(`DeleteRoom`, `CheckCreator`, `RemoveRoom`). One action is one SQL statement,
which may fail before or after it was executed. The column `username` is unique
and compares without regard to case, so a name is a word in a spelling; ids come
from `AUTO_INCREMENT` counters, which move on even when an insert is refused, and
which MySQL 8 keeps across restarts.

`tokens` are the identities that logins have issued and that the endpoint and
`/room/...` believe. The caller of `/room/...` shows one of them or none;
`getCreatorId` makes 0 of none. A row keeps the token that was shown (`owner`)
beside the creator that the table has, as two callers without a token are not one
person.

`log` are the Redis histories by room id. `Post` writes to any of them, as the
endpoint does not look: to that of a room that is gone, of one still to come, or
of `null`. A message that was posted while no room had the id belongs to no room.
`RoomIds` bounds the ids.

### SseChat

A GET occupies a thread for `Accept`, `Add`, the broadcast of its join and
`Listen`, where the listener is added and `doGet` returns; a POST for its
broadcast. A broadcast iterates over the list as it was when it began (a
`CopyOnWriteArrayList`) and takes each writer's lock (`BeginWrite`, `EndWrite`).
A write to a client that has left fails silently, as `PrintWriter` does, and marks
the client broken; the container then calls `OnError` once there is a listener.
That the container does so is an assumption about it. The heartbeat is sent to
room `""`, which `doGet` refuses to subscribe to: it changes nothing.

## 3. Runs

| Run | Checks | Result |
|---|---|---|
| `registry` | `TypeOK`, `OneRoom`, `RegisteredInItsRoom`, `MapsAgree`, `StaleOnlyByRace`, refinement of `RoomMembership` | hold, with everything overlapping and broadcasts that throw |
| `registry_live` | `ClosedIsReclaimed` | holds under fairness |
| `room_chat` | `TypeOK`, `NoGap`, `ListIsCurrent` | hold, with colliding senders and failing Redis |
| `room_chat_fault` | `Broadcast` | **violated**: protocol.md promises all members |
| `heartbeat` | `DeadReclaimed`, `ResponsiveKept` | hold with the period that protocol.md states; `ResponsiveKept` does not with the code's, see the next run |
| `heartbeat_code` | `ResponsiveKept` | **violated** with the code's period |
| `private` | `TypeOK`, `SentOrQueued`, `MissedOnlyByRace` | hold whatever throws |
| `client` | `TypeOK`, `NoDoubleRender`, `ViewIsWhole`, `RoomsDoNotMix`, `PrivateIsNoticed`, `PostedWhereTyped`, `ReconnectsOrGivesUp` | hold; the last under fairness |
| `client_reconnect` | `ShownRoomIsJoined` | **violated** by a break and an automatic reconnect, with no click on a room in between |
| `store` | `TypeOK`, `LengthBound`, `ExpiresUnlessFailed`, `ReadsSeeSaves`, `DeletedOnlyInRace`, `EveryCallEnds`, refinement of `BoundedLog` | hold with failing commands; `EveryCallEnds` under fairness |
| `directory` | `TypeOK`, `NameBelongsToWinner`, `RegisteredCanLogIn`, `OneIdentity`, `DeletedOnce`, `HistoriesStayApart`, `OnlyCreatorDeletes` | hold with failing statements |
| `sse` | `TypeOK`, `Delivered`, `BrokenIsRemoved`, `PostsEnd` | hold; the last two under fairness |

### What the violations say

1. **PING period** (`WSServPoint` 61). `PING_INTERVAL` is 5000 and the unit is
   seconds: the first PING comes after 83 minutes. Only a PONG refreshes
   `lastHeartbeat`, so every session is evicted 30 to 40 seconds after it
   connected. With the documented 5 s the same model keeps responsive clients.
2. **Broadcast cut short** (`WSServPoint` 343). A member that closes after
   `isOpen()`, or to which another thread is writing, ends the broadcast for the
   members behind it.
3. **Reconnected without a room** (the page, 146). `onopen` switches to a room
   only when the page has shown none yet. After an automatic reconnect the page
   shows its room, the server has none for the new session: nothing of the room
   arrives, and what is typed is saved under the key `chat:room:null`. With the
   first point this happens to every page after 30 to 40 seconds. The run's
   specification (`PatientSpec`) lets the user enter rooms only while the page is
   connected, so that nothing but the reconnect is to blame. A room that is clicked
   before the socket is open, at the start or after a break, ends in the same state;
   that is a shorter trace of `Spec`.

### What the properties had to leave out

A property that holds says for which cases it makes no claim; these are cases
that the code lets happen.

* **Stale members** (`StaleOnlyByRace`; `WSServPoint` 45, 95, 159). When the
  heartbeat check or a reconnect takes the entry out before `onClose` looks for
  it, `onClose` does nothing and the closed session stays in its room set for
  good. So it does when `onOpen` or `SWITCH_ROOM` adds a session after it was
  closed.
* **Two sessions of one user** (`MapsAgree`; 164-165). The mapping of a session
  that connected between the comparison and the removal is removed; the next
  reconnect does not find it. Nor does an `onOpen` close the old session at once: a
  third connection may find the first two open. What comes of it is in
  `MissedOnlyByRace`: the user has two open sessions, and a private message goes to
  whichever of them the loop over `userSessions` meets first.
* **Half a switch** (`RegisteredInItsRoom`, `RoomsDoNotMix`, `PostedWhereTyped`;
  213). An unchecked exception of the leave broadcast leaves the session in no
  room, with a `UserSession` that names the old one, and the page under the new
  one: what is typed there is posted in the old room.
* **Online, yet queued** (`MissedOnlyByRace`; 287-304). A message whose recipient
  logs in between lookup and push waits for the next login. So does one whose
  lookup found a session that has closed, though the user has an open one beside.
* **The replay cut short** (`MissedOnlyByRace`; 118). When the replay of the queue
  throws, the session goes on without the rest of it until the next login.
* **Unread, and gone** (`PrivateIsNoticed`; the page, 336). The click on a friend
  takes the unread mark away before the history has come. When there is no
  connection, when it breaks before the answer, or when the message was not saved,
  nothing shows or marks the message afterwards.
* **Neither sent nor queued** (`SentOrQueued`; 295). An unchecked exception of
  `sendText` skips the queue and the echo; the message is in the history only.
* **Overtaken lists** (`ListIsCurrent`; 322-348). Two announcements may arrive in
  the other order: a member then shows the older list until the next change.
* **Messages of the last room** (`RoomsDoNotMix`; the page, 181). Until the
  server has handled a switch, messages of the old room are shown under the new
  one.
* **Lists for ever** (`ExpiresUnlessFailed`, `LengthBound`; `OfflineMessageService`
  71-73). When the connection fails between the commands, a list stays without
  expiry, or too long, until the next save.
* **Lists deleted** (`DeletedOnlyInRace`; 17-19). A message pushed between the
  `TYPE` and the `DEL` of another call is deleted.
* **One list for two conversations** (`ReadsSeeSaves`; 126-130). Users `x:y` and `z`
  have the key of users `x` and `y:z`. `ReadsSeeSaves` says that a read returns what
  it should, not that it returns nothing else.
* **Rooms of nobody** (`OnlyCreatorDeletes`; `RoomServlet` 68, 81-90).
  `src/README.md:92-93` says that creating a room needs a token and that only its
  creator may delete it. The servlet asks for no token: without a valid one the
  creator is 0, and every caller without one is creator 0 as well, so that anybody
  may delete such a room. They are no exception: the jQuery 1.4.3 that the page
  loads has no `headers` option (410, 437), so every room created from the page is
  one of them, and a room of somebody who showed a token cannot be deleted from
  the page at all. Of these rooms `OnlyCreatorDeletes` says nothing; what it
  says is that a room whose creator showed a token is safe from all other
  callers.
* **Histories before the room** (`HistoriesStayApart`; `WSServPoint` 199-219). Any
  room id can be entered and written to. A room that gets this id later starts with
  that history.
* `stress_test_report.md:113` says that each SSE connection holds a thread until it
  is closed. `PostsEnd` holds because `doGet` returns after `startAsync`.

### Bounds

* *Registry*: two connections, of up to two users, and two rooms; of one user and
  one room in the liveness run, which has no symmetry. Two connections of one
  user are old and new, and every race above but "two sessions of one user" takes
  no more than two connections and the heartbeat check; that one is in `private`,
  which has three.
* *Room chat*: two sessions, two messages, `Limit` = 1, so that a read of the
  history does leave a message out.
* *Heartbeat*: the documented periods in ticks, and the code's in
  `heartbeat_code`; two sessions, as timers are shared and ages are not.
* *Private chat*: three connections, which the ways to two open sessions of one
  user take (the third connects while the second closes the first, or the closing
  first unmaps the second), and one message: no step of one message reads what
  another has left, but for the queue, which only grows.
* *Page*: two rooms, to switch between, and a friend; one message typed and one of
  somebody else, each of which reaches any room or the conversation, live, by
  history, by the queue or in several of these ways; two frames under way in each
  direction (`MaxUp`, `MaxDown`), so that a switch overtakes a message; `Limit` = 1,
  so that the second message of a conversation hides the first; two attempts in
  a row.
* *Store*: two saves and a read over two connections, so that three calls compete
  for the pool; `MaxLen` = `Limit` = 1, so that the second push does trim and
  does hide a message. Two users have one conversation, so that no keys collide
  here; the theorems cover any `Joined`.
* *Directory*: two registrations of one word in two spellings, a login; two rooms
  (`RoomIds` = {1, 2}) and two deletions, so that a room can be created between the
  check and the deletion of another, and messages be posted under the id of a room
  before, during and after its life.
* *SSE*: two clients and a post over two threads: the three requests are more than
  the threads.
* Connections, messages and requests are used once each; reconnecting takes a new
  session, except in `ChatClient`, where it starts the one session anew. That
  bounds the runs and is why they may end: `CHECK_DEADLOCK FALSE`.

The theorems of section 5 cover every number.

### Fairness

Nothing is assumed of users, clients and the network: nobody has to connect,
send, answer or close.

* `registry_live`: weak fairness of the steps of a handler that has started (a
  thread that runs goes on; its blocking sends end by success or by Tomcat's send
  timeout of 20 s) and of the heartbeat check for each session that it finds too
  old (`scheduleAtFixedRate` runs it every 10 s, and an entry that nobody
  refreshes gets too old).
* `client`: the browser runs a timer that is due, and a connection attempt
  succeeds or fails.
* `store`: a command is answered or times out after the 3 s of `RedisUtil`, and a
  thread waiting for a connection gets one that stays free.
* `sse`: a request gets a thread that stays free, a thread goes on (a write ends by
  success or by the container's write timeout), a lock that is free again and
  again is given to a thread that waits for it, and the container reports a
  failed write to the listener.

## 4. What is not modelled

* Wording, JSON, dates, log output, HTML, the lists of rooms and of users on the
  page.
* `privateChat.jsp`, a page with a socket of its own. As a user has one session,
  it and the chat page close each other's sockets.
* `loadRooms()`, which the page calls after it has created or deleted a room (415,
  443) and defines nowhere: the call fails in the browser and the list stays as
  it was.
* `MessageDAO`, `WSEndpointConfigurator`, `RoomMember`, `addMsgId`, `hasMsgId`:
  dead code. Getters and setters, `DBUtil` and two forwarding servlets: no
  control. jQuery and `target/`: vendored and generated.
* Password hashing, token signatures and token expiry: a token is valid or it is
  not. A password is compared as such.
* What users see of each other when their names make one key (see "One list for two
  conversations"): `RedisStore` has the collision, and no property about it.
* Data races on `roomId` and `lastHeartbeat` beyond interleaving, see section 1.
* How long a slow receiver holds up a broadcast: only `Heartbeat` has a clock.

## 5. Proofs

Each theorem holds for any constants that satisfy the module's assumptions.

| Module | Theorems | State |
|---|---|---|
| `SessionRegistry` | `TypeCorrect`, `RoomsAreIsolated`, `MembersReceive`, `OnlyRacesLeaveMembers`, `RoomsImplementMembership`, `MapsAgreeWithoutRaces`, `OpenSessionsAreKept` | `[]TypeOK`, `[]OneRoom`, `[]RegisteredInItsRoom`, `[]StaleOnlyByRace`, `MembershipSpec`, `[]MapsAgree`, `[]OpenAreRegistered` |
| `RoomChat` | `ChatTypeCorrect`, `HistoryMeetsLive`, `MembersKnowTheRoom` | `[]TypeOK`, `[]NoGap`, `[]ListIsCurrent` |
| `Heartbeat` | `HeartbeatTypeCorrect`, `DeadAreReclaimed`, `ResponsiveAreKept` | `[]TypeOK`, `[]DeadReclaimed`; `[]ResponsiveKept` if `PingPeriod + Latency <= Timeout`; `OnePingEach` if `Timeout + ReapPeriod + Latency < PingPeriod` |
| `PrivateChat` | `PrivateTypeCorrect`, `DoneIsDelivered`, `MissesAreRaces` | `[]TypeOK`, `[]SentOrQueued`, `[]MissedOnlyByRace` |
| `ChatClient` | `ClientTypeCorrect`, `ShownOnce`, `PrivateMessagesAreNoticed`, `TypedRoomIsPostedRoom`, `RoomsAreKeptApart`, `ViewsAreWhole`, `PageKeepsTrying` | `[]TypeOK`, `[]NoDoubleRender`, `[]PrivateIsNoticed`, `PostedWhereTyped`, `[]RoomsDoNotMix`, `[]ViewIsWhole`, `[]NeverIdle` |
| `RedisStore` | `StoreTypeCorrect`, `ListsAreBounded`, `ListsExpire`, `OnlyRacesDelete`, `ListsImplementLogs`, `ReadsReturnSaves`, `CallsOnlyAdvance`, `PoolIsBusy`, `OneKeyPerConversation` | `[]TypeOK`, `[]LengthBound`, `[]ExpiresUnlessFailed`, `DeletedOnlyInRace`, `LogSpec`, `[]ReadsSeeSaves`, `CallsAdvance`, `[]FullPoolIsBusy`, and a fact about keys |
| `Directory` | `DirectoryTypeCorrect`, `WinnersOwnTheirNames`, `RegistrationsLast`, `TokensIdentify`, `RoomsGoByTheirCreator`, `OneDeletionSucceeds`, `RoomsKeepTheirHistories` | `[]TypeOK`, `[]NameBelongsToWinner`, `[]RegisteredCanLogIn`, `[]OneIdentity`, `OnlyCreatorDeletes`, `[]DeletedOnce`, `[]HistoriesStayApart` |
| `SseChat` | `StreamTypeCorrect`, `BroadcastsReachSubscribers`, `ListedAreServed`, `WritersDoNotDeadlock` | `[]TypeOK`, `[]Delivered`, `[]Served`, `[]WaitsForARunner` |

The arguments:

* **Rooms.** `OneRoom` is not inductive: `Enter` and `Join` add a session to a
  room without looking whether it is in another. `RoomInv` says where the control
  excludes that: a session that is in a room is in the one its `UserSession`
  names and stands at `idle`, `announce` or `leave`, so one that is about to
  `Enter` or `Join` is in none; and it enters the room that its `UserSession`
  names by then. With that, each step takes a session that is outside every room
  into one, or takes one out, which is a step of `RoomMembership` or a stutter.
* **Members.** `MemberInv`: whoever takes a session out of a room has taken it
  out of `userSessions` before (`onClose` between `CloseCurrent` and
  `CloseLeave`, an `onOpen` at `LeaveOld`), and by then its own `onOpen` is past
  `Register`, so that it does not come back; and a registered session is in its
  room from `Enter` until it leaves it in `SWITCH_ROOM`.
* **Stale members.** `StrayInv`: a session that has not strayed and is in a room is
  registered, or its `onClose` has unregistered it and is about to leave that very
  room; while it is open it is registered from `Register` on.
* **The maps agree.** `MapsAgree` speaks of a user at rest; `AgreeInv` says what
  the maps hold at every point of the user's handlers. `OneHandler`: while no two
  of them have overlapped, at most one session of the user is live, but for the
  old one that `onOpen` closes and waits for; so `DropOld` finds it unregistered
  already and `LeaveOld` is never reached. `InMaps` then gives each map by the
  place of that handler; at `unmap` the user's mapping is still this session's,
  which a handler in between would break. `OwnerInv` keeps users apart, so that
  the races of one cost another nothing.
* **Open sessions are kept.** `KeepInv`: `onOpen` and the heartbeat check remove a
  session that they have closed or found closed. This needs no absence of races:
  it is the part of `MapsAgree` that survives them.
* **History meets live messages.** `NoGap` is itself close to inductive, since
  `Enter` precedes `Read` and `Save` precedes `StartCast`: a message is saved
  before the read, and then it is in the history; or after it, and then its
  broadcast starts with the session in the set. `CloseInv` adds that a session
  whose handler announces its own close is out of the set.
* **User lists.** `ListInv`: a list that is still being sent is the room, unless
  a change has made its handler late; so each member either has the room as its
  last list, is behind, or is still to be told by a handler under way.
* **Dead sessions.** `AgeInv`: the age of a registered session is at most
  `Timeout` plus the ticks since the check last ran.
* **Responsive clients.** `PongInv`: an unanswered PING was sent at most `Latency`
  ticks ago and the last heartbeat at most one PING period before it; otherwise
  the age is at most the PING timer. That needs a PING period below the timeout. For
  the other side, where the code's own constants are (1000 ticks against 6),
  `RareInv`: the last heartbeat of a session that was sent a PING is at least as
  long ago as the PING timer says, less `Latency`; when the next PING is due, that is
  longer than `DeadAreReclaimed` lets a session stay. So a client is sent one PING
  at most.
* **Private messages.** `PullInv`: what an open session pulled it has received
  or has still to receive. `StrayInv`: an open session that has not strayed
  is the user's current one or about to be closed by the `onOpen` that replaced it;
  so of two open and registered sessions one has strayed. `LookupInv`: a message that is looked up after an open
  session was registered finds that session or another one, never none, and is
  received by the session it found, or queued if that one had closed. `DestInv`: a
  handler about to send has found a session.
* **Shown once.** `RenderInv`: what the view shows is among the ids it has seen.
* **Unread.** `NoticeInv`: a message that is unseen though its id is known belongs
  to a friend with an unread count; the click that takes the count away forgets the
  ids and asks for the history. `SilentInv`: without an open socket nothing is under
  way, so that what is unseen then has its mark.
* **Posted where typed.** The channel to the server is in order, so the room of a
  session at the time it reaches a `CHAT` frame is that of the last `SWITCH_ROOM`
  before the frame, or the session's present one if there is none. `PostInv` says
  that this is the frame's room, and that what is after the last switch in the
  channel is the room the page shows.
* **Rooms do not mix.** `MixInv`: once no switch is under way, what is on its way
  to the page or shown is private, of the session's room, or was saved before the
  switch; a broadcast that picked the session before it moved counts among the
  last.
* **Whole views.** `LogInv`: a list holds only messages that were posted in its
  conversation. `OnceInv`: a message is in one frame or in one conversation, never in
  two places. `SeenInv`: what was seen since the view was cleared is on the screen if
  it belongs to the view, so that `receivedMsgIds` never hides a missing message.
  `AskInv`: the last request on its way is the one for the open view, and once it
  is taken the session is in that room or about to send that history. `WholeInv`:
  once it is answered, every message of the conversation is on the screen, on its
  way, still to be sent, or its sending failed.
* **The page keeps trying.** `NeverIdle`: the callback that reports the end of a
  connection starts the timer too, and only an attempt or the end of the page
  stops it.
* **Lists.** Every step of `RedisStore` pushes, trims, expires, clears one list or
  leaves all of them (`StepKinds`); that is the refinement, and the frame of the
  other proofs. `Control` says that a message in a list was pushed by a call with
  that key that is past its push, which makes `LengthBound` inductive; `DelKnows`
  says that while a call is about to delete, its list holds only messages pushed
  since it looked.
* **Reads.** `PushedInv`: a list is the newest part of what was pushed to its key,
  and a message that is neither in it nor lost has `MaxLen` newer ones (`Before`),
  also while trims overlap: a trim removes from the end, whatever others have
  pushed since. A saved message is among the pushes before its call returns
  (`MustInv`), so a read finds it or as many newer ones as it may return. `KeyOf`: the
  same users make the same key, whoever else makes it too.
* **Calls come to an end.** Every step of a call lowers `StepsLeft`; while the
  pool is full each of its connections is held by a call that has a command to
  send, never by one that waits.
* **Rooms and accounts.** `RoomsInv` and `AccountsInv`: ids are smaller than the
  counter and unique among all rows there ever were, so a row that was found by
  its id is the one that is deleted, whatever happened in between; a token is a
  row's name and id, and ids are greater than 0, the creator of the callers without
  a token; a registration that was answered with success has its row.
* **Streams.** A broadcast's clients are those it has still to write to, those it
  wrote to and those that are broken (`CastKnows`); a client is in the list only
  after its `Add` (`Listed`), so that it is added once and one removal takes it
  out for good: once its stream has ended it is not in the list (`Served`).
  `LocksInv`: who holds a writer's lock is writing to that client, so it holds no
  other and waits for none.

Model-checked only: the five liveness properties, since fairness and `ENABLED`
are outside what the prover handles. For four of them a theorem has a safety
part, the one a wrong code would break; that fair steps are then taken is left to
TLC:

| Liveness property | Proved of it |
|---|---|
| `ReconnectsOrGivesUp` | a closed page has a timer or no attempts left (`PageKeepsTrying`) |
| `EveryCallEnds` | a call only advances (`CallsOnlyAdvance`), a full pool has somebody who can (`PoolIsBusy`) |
| `BrokenIsRemoved` | a client whose stream has ended is not in the list (`ListedAreServed`) |
| `PostsEnd` | no circle of threads that wait for locks (`WritersDoNotDeadlock`) |
| `ClosedIsReclaimed` | nothing: it is the heartbeat check's coming back that makes it true |

The invariants of this table, `Heartbeat`'s type invariant and `OnePingEach` are
in the proofs only, not in a run. No module that is proved about declares a `RECURSIVE`
operator.

## 6. Hazards

`PROJECT.json` lists the hazards of the code at their lines, with the properties
that would catch each. The few without a property say why.

## 7. What could follow

* `Heartbeat` composed with `ChatClient`: how often a page of the code as it is
  loses its room.
* An order between the history and the broadcasts of a room, should a document
  promise one.
* `privateChat.jsp` beside the chat page, as two clients of one user.
