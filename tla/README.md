# rtc_client: TLA+ models, checks and proofs

rtc_client is the client side of a video conference. A `LiveMeetingRoom`
talks to a signalling server over a websocket, sends the local audio and video
as RTP, and receives the streams of the other participants. This directory
holds TLA+ models of the parts of it that carry state and concurrency, the TLC
configurations that check them on small instances, and TLAPS proofs of the
safety properties for all values of the constants. `PROJECT.json` lists the
components, runs, mutants, findings, hazards, theorems and, for every
definition, the lines of source it stands for.

## 1. The system

### Components, state and operations

| Component | State | Operations | Model |
| --- | --- | --- | --- |
| `LiveMeetingRoom` (`application/app_meeting_room.*`, `app_command.h`) | room identity, map of the other users and its mutex, two RTP senders, three threads' flags, the mark of a running signal | `initialize`, `un_initialize`, eight `signal_*` calls, ten `on_ws_*` handlers, `receive_loop`, `websocket_pulse_loop` | `MeetingRoom`; what the embedding program is promised: `RoomSession` |
| main program (`main.cpp`) | registered callbacks, two global flags | registers the callbacks; the event callback asks for online users and streams | in `MeetingRoom` |
| `WSClient` (`websocket/ws_client.*`) | connection, connected flag, mutex, repeating timer | constructor, `pulse`, `on_timer`, `on_event_handle`, `send_text`, destructor | `WSClient`; what the room sees of it: `WSLink`, and the connection of `MeetingRoom` |
| mongoose (`websocket/mongoose.*`, third party) | list of connections, their sockets and buffers, timers | `mg_mgr_poll` and its per-connection work, `mg_ws_connect`, `mg_close_conn`, `mg_mgr_free` | the part that `WSClient` drives, in `WSClient` |
| `RoomUser` (`application/app_room_user.*`) | two RTP receivers of one participant, frame assembler and buffer | `initialize`, `receive_video`, `receive_audio`, `nat_pinhole`, destructor | `RoomUser`; `initialize` as one step in `MeetingRoom`, `receive_video` in `H264Stream` |
| `PortManager` (`common/common_port_manager.*`) | list of available ports, set of ports in use | `initialize_udp_ports`, `get_udp_port`, `release_port`, `check_available` | `PortManager`, with its users in `RoomUser` |
| `SimpleMessageQueue` (`common/common_msg_queue.*`) | bounded deque, running flag, consumer thread | `start`, `stop`, `put`, `get`, `run`, `clear_msg_queue` | `MsgQueue` |
| `RTPSessionReceiver` (`rtp/rtp_session_receiver.*`) | transmitter, reorder list | `init`, `receive_rtp_packet`, `nat_pinhole` | `ReorderReceiver`; its life in `RoomUser` |
| `RTPPacket`, AAC packet builder | sequence numbers, header fields | `parse`, `build_packet` | the sequence number in `ReorderReceiver` |
| `RTPTransmitterV4` | socket, destinations | `init`, `send_data`, `receive_data` | socket in `PortManager`, datagrams in `ReorderReceiver` |
| `RTPSessionAudio`, `RTPSessionVideo` | builder and transmitter | `init`, `add_destination`, `send_*` | initialisation in `MeetingRoom`, `send_h264_data` in `H264Stream` |
| H.264 builder and frame assembler (`rtp/rtp_h264_*`) | packets of a frame, fragment buffer | `receive_rtp_packets`, `push_packet` | `H264Stream` |
| `AppLogger` (`common/common_logger.*`) | its queue, the open file, day, number in the ring, printed size | `initialize`, `uninitialize`, six logging calls, `handle_msg`, `write_log` | `AppLogger`, on `MsgQueue` |
| codec helpers (`codec/codec_utils.*`) | none | start code search, frame scans, ADTS headers, Exp-Golomb codes, emulation prevention | `CodecUtils` |
| JSON, UTF-8 and string helpers (`common/common_json.*`, `common_utf8.*`, `common_utils.*`) | none | write and read JSON, check UTF-8 | `JsonText`, `Utf8` (with `CodecUtils` in `Conversions`) |

### Interactions

The embedding program runs on the *app* thread. `initialize` starts the *ws*
thread, which polls mongoose and runs every handler and every user callback;
callbacks call `signal_*` again. A create or join response starts the *recv*
thread, which walks the users map under `m_receive_mutex` and reads RTP from
each user. `pull_stream` initialises a `RoomUser` on the ws thread without that
mutex. `send_text` is called on the app thread and, by callbacks, on the ws
thread, on a connection that mongoose opens and frees on the ws thread. A leave (`exit`, `stop`, `closing`) on the ws thread stops and joins
the recv thread, deletes senders and users and resets the identity;
`free_context` on the app thread stops and joins both. `RoomUser` and the
senders take UDP ports from the one `PortManager`. `AppLogger` hands its lines
to a `SimpleMessageQueue`.

### What is hard about it

* three threads over one map with one mutex, and a pointer kept after unlock;
* two places that join the recv thread, one of them while handlers may run;
* a gate (`m_is_signal_running` and a clock) that is tested and set without a
  lock from two threads, and responses that are not matched with requests;
* retries after a timeout, while the first answer is still on its way;
* connections that break between a request and its answer, attempts that
  nobody ever answers, and a timer that gives them up behind mongoose's back;
* `send_text` and `RoomUser::initialize`, which share pointers with another
  thread outside of a mutex;
* a room whose `initialize` lets the ws thread run before it has made the
  senders, and a `RoomUser::initialize` of several steps, each of which may fail;
* a condition variable waited on under an `if`, signalled after the unlock;
* ports that are never released and come back only when the pool is empty;
* datagrams that are lost, duplicated and reordered, numbers that wrap;
* a ring of log files over days, restarts and files that cannot be created;
* word-wise searches, escapes and codes with their boundary cases.

`PROJECT.json` lists these as hazards, each at its line, with the properties
that would catch it going wrong.

## 2. Modules

### MeetingRoom

One action per handler, call or loop step; a step ends where another thread
can see the difference (a lock, a join, between the gate and the send of a
`signal_*` call). The program counters `appPc`, `wsPc`, `recvPc` are the three
threads:

* app: `Initialize`, `CreateContext` (which starts the ws thread),
  `NewAudioSender`, `NewVideoSender` (after which the room counts as
  initialised), `UnInitialize`, and `free_context` as
  `JoinWs` (wait for ws, then clear the recv flag) and `JoinRecv` (wait for
  recv, then delete everything). `AppBegin`/`AppIssue` are the two halves of a
  `signal_*` call: `Gate` is its chain of early returns, `Issue` marks the
  signal as running, builds the request from the identity *at that moment*
  and sends it, or takes the mark back when the connection is down.
* ws: `Receive` takes a message; `OnEnter`, `OnUserList`, `OnUserGone`,
  `OnPullStream`, `OnLeave`, `OnStopPulling` and `OnNothing` begin the
  handlers, `InsertUsers`, `EraseUser`, `FindUser`, `InitUser`, `PullDone`,
  `RemoveAudioSender`, `RemoveVideoSender`, `ClearUsers`, `ResetIdentity` are their later steps, and
  `EventCallback`/`WsIssue` the callback of `main.cpp` with its own
  `signal_*` call.
* recv: `RecvTest`, `RecvLock`, `RecvUnlock`.

Between `CreateContext` and `NewVideoSender` lies the start window: the ws
thread already delivers events and messages while `initialize` has yet to make
one or both senders, and a failure there ends in `free_context` with that
thread running. After a restart that kept the identity a handler may leave the
room in this window, find no sender to delete, and reset the identity while
`initialize` makes the senders: they are there, not initialised for any room.
`LeaveCleans` and `RoomSession` say exactly this much.

`Connect`, `Disconnect`, `Server`, `Notify` and `Tick` are the environment.
The server is external: it answers the requests of a connection in order, may
refuse any of them, hands out a new membership number for each create or
join, and notifies of users and of the end of the conference. A membership
number stands for a pair of room id and user uuid, which the code always
assigns together; `my = 0` is the empty string. After a broken connection the
server either drops the membership or keeps it.

Abstracted: addresses, names, ssrcs and JSON. `age` counts the seconds since
the last signal up to `Limit`, because the code only asks whether six have
passed.

### RoomSession

The abstract specification of the room: `off`, `on`, `leaving`, `left`,
`stopping`, with the identity held, whether media is received, and the senders.
`Start` finds the identity that the stop before has left (`free_context` does
not reset it); once per start, and whatever the session has come to meanwhile,
`MakeSenders` makes new senders; `Enter` takes a room that is newer than the one
held, and may fail to start the media or to ready the senders; a leave ends
the media, then drops the senders, then gives up the identity with no sender
ready; a stop ends the
media and keeps the identity. `MeetingRoom` implements it (`ImplementsSession`)
with `phase <- SessionPhase`, `starting` while `initialize` has senders to make,
`room <- my`, `media <- recvPc # "off"` and
`send <- SessionSend`: all of requests, retries, late answers, users, mutex and
connection is a stutter of the session or one of its nine steps.

### MsgQueue

The queue with any number of producers, its consumer thread and the thread
that starts and stops it. The build is a variable chosen initially: the POSIX
one signals after the unlock and does not look at the queue again after
waiting; the `_WIN32` one waits with a predicate and notifies inside the
lock. A pop of an empty deque, which is undefined, leads to the consumer
state `undefined`, of which nothing more is said.

### PortManager

`get_udp_port` is one step per round of its loop (`GetPort`, `TryPort`,
`GetFails`), because other processes bind and close ports between two rounds.
The room asks for one port at a time: all callers are on the ws thread. `Bind`
and `Close` are the sockets of receivers and senders; a sender that gets no
port lets the system choose one outside of the pool (`Ephemeral`).
`CheckAvailable` says no when the port is taken and also when no probe socket can
be created. `release_port` is modelled although the program never calls it.
`offered`, `freeSince` and `unprobed` are history variables for `FailureTriedAll`.

### RoomUser

`PortManager` with the users of its ports: one `RoomUser` with a video and an
audio receiver, and the senders. The ws thread runs `initialize` step by step
(`Begin`, `Search`, `NewReceiver`, `SetReorder`, `NewTransmitter`,
`BindReceiver`, `Ready`, `NewAssembler`, `InitAssembler`, `NewBuffer`,
`Initialized`; on failure `DeleteReceiver`, `ExitFlag`, `Failed`), because the recv
thread, which holds `m_receive_mutex` and tests the same pointers, sees every
one of them (`Test`, `Receive`, `Push`, `Pinhole`, `SendPinhole`). `EraseUser`,
`Destroy`, `Erased` are `user_gone`, under the mutex. `rx` is a pointer and what it points to as a
stage of the receiver's life; a null or dangling pointer that is used, or taken
away between the test and the use, sets `undef` and ends the model: nothing is
said of the program afterwards. The contents of packets are
`ReorderReceiver`'s and `H264Stream`'s part; here only the length of the
reorder list counts, because a packet comes out once it is full.
Every action is written as a step of `PortManager` or leaves its variables
alone.

### WSClient, WSLink

`WSClient` is the client on the part of mongoose that it drives. A poll is the
timer (`NotDue`, `TimerPing`, `TimerClose`, `TimerConnect`), then per
connection (`Visit`) name resolution (`DnsDone`, `DnsFailed`), connecting
(`ConnectDone`, `ConnectFailed`), reading (`ReadUpgrade` ... `ReadEof`, one
frame each), the callback's own `send_text` (`Callback`), writing (`Write`) and
closing (`CloseConn`). The app thread is in `send_text` (`SendTest`,
`SendLock`, `SendEnd`), stops the pulse loop or runs the destructor
(`Destroy`), which polls once more. An address is reused after a free. The
server accepts, refuses, sends texts whole or in two fragments with control
frames between them, pings, closes, or falls silent; `calm` says that from now
on it and the network are well. `orphans` counts the sockets that lost their
connection since then: `on_timer` calls `mg_close_conn`, which frees a connection and does
not close its socket. The two assignments of the close event
(`ws_client.cpp:104-105`) are one step: `send_text` tests both fields, and after
the first assignment its test has the same outcome as after the second. Abstracted: URLs, HTTP headers, masks and lengths of
frames, DNS packets.

`WSLink` is the abstract specification: a link that opens and closes in turn
and brings every text of the server once, in order. `WSClient` implements it with
`up <- m_connected, heard <- got`, which is what `MeetingRoom` takes for granted of
its connection.

### AppLogger

Extends `MsgQueue`: `Handle` becomes `LogHandle`, which prints a message with
`WriteLog`, the whole of `write_log`: is a new file due (`Rotate`), which
number does it get (`NewSeq`: one past the last, from the beginning when the ring is full,
the first one that does not exist when the logger has just begun), can it be created
(`Created`, or `fopen` fails), print. `localtime` may fail before anything
else and `fprintf` at the end (`NotPrinted`); bytes that a failing `fprintf` has
already written are not counted, by the code or here. `Initialize`, `Uninitialize` and
`Stopped` are the logger's life around start and stop of the queue. A file is
known by its day and its number, its size is counted in messages, of which some
are larger than a file may be. `opened` and `logged` are history variables.

### CodecUtils, Utf8, JsonText, Conversions, MCConversions

Pure functions, translated one by one and checked against reference
definitions that are written from what the format says, not from the code.
`AnnexBUnits` are the units of a byte stream by H.264 Annex B, with all zero
bytes behind a unit outside it. The code agrees on a `Tidy` stream, without
trailing zero bytes and without a start code at its very end; on any other it
sends more (`SentSpans`, see the divergences below).
`CodecUtils` has the search for start codes with its three phases (bytes up to
an aligned address, words, bytes), the splitting and scanning functions built
on it, ADTS, Exp-Golomb and emulation prevention; `Utf8` the two checks;
`JsonText` writing and reading with the escapes as successive replacements and
arrays as maps with decimal keys. `Conversions` is a machine that grows inputs
of each kind symbol by symbol and compares every prefix with its reference.
The loops of `CodecUtils` and `Utf8` are recursive functions and folds, so that
section 4 can prove some of them right for every input. `JsonText` needs
`RECURSIVE` operators, which TLAPS does not handle; `MCConversions` extends
`Conversions` with it for TLC only.

### ReorderReceiver

The reordering `receive_rtp_packet` against a network that loses, duplicates
and reorders. A packet is its builder's counter; `Key` is the number that
`RTPPacket::parse` puts together, which for video lacks the high half,
because `RTPSessionVideo` sends it as 0. `Half` is 2^16, scaled down in the
runs so that a wrap happens. `Dummy` is the packet that the first call
puts into the empty list without parsing it. `Displace` bounds how many
later datagrams may overtake one.

### H264Stream

A frame from `send_h264_data` to the callback of the receiving `RoomUser`.
`ReceiveRtpPackets` is the builder as a fold of `AddNalu` over the units of the
frame: collect small units, close a packet (`BuildPacket`, a single unit or a
STAP-A), cut a large one up (`Fragments`), and give up when the packets
outgrow the buffer. `SendH264Data` sends them until a send fails, `Lose` is
the network, `ReceiveUnits` and `ReceiveNothing` are `receive_video` with a
packet for which `push_packet` returns true and one for which it does not. A
datagram larger than `RTP_RECV_BUFFER_SIZE` is cut by `recvfrom` (`Whole`), which can
happen to a STAP-A only: `get_stapa_frame` then finds the units before the cut
(`UnitsRead`), or refuses the packet as invalid when the cut is within a unit
(`Refused`), in which case its marker goes unseen and what the frame has left in
`m_h264_rtp_buffer` goes into the next delivery. Bytes are known by where
they come from, so that the result can be compared with `AnnexB`, the frame as
it should be. Packets stay in order here: putting them in order is
`ReorderReceiver`'s part. Lengths are scaled down; the start code counts as one
byte. NAL units have the types 1 to 23 that an encoder produces. Outgrowing
the assembler's own buffer, which the code does not test for fragments, is not
modelled.

### *_proofs, FoldInduction

The seven `_proofs` modules hold the theorems of section 4, and
`FoldInduction` the facts on induction and folds that two of them share.

## 3. Runs

Passing runs:

| Run | Shows | Bounds |
| --- | --- | --- |
| `room_safety` | the recv flag says whether there is a thread (`ReceiveThreadTracked`); the map does not change while it is walked (`UsersStableWhileReceiving`); the pointer of pull_stream and all receivers belong to users of the map (`ReceiversOnlyForKnownUsers`); a torn-down room owns nothing (`TornDown`); senders are initialised together (`SendersInitTogether`); leaving cleans up (`LeaveCleans`); all of it is a session (`ImplementsSession`) | one participant besides the client, two memberships (a room entered after another one, or after a restart that still holds it), one message each way, two connections (before and after a restart, so that messages meet the start window with an identity held), failing socket, sender and thread creation; about 3.8 million states |
| `room_membership` | `TypeOK`; `MembershipSound`: while the connection lasts, a client that holds a room identity is a member under it, or the message that ends the membership is on its way or being handled; `LeaveCompletes` and `TeardownCompletes` under fairness | two memberships, so that a late answer belongs to an older one, one message each way, one participant; about 270 000 states (two messages each way were checked as well, without the liveness properties, which made the run too long) |
| `logger` | `FifoExact`: what is pushed, exit messages included, leaves the queue once and in order; `StopCompletes`; `AcceptedIsLogged`; `Retained`: a message can be read until `MaxFile` later files of its day have been created, and no longer; `FilesSound`: a file holds a part of the log without a gap and ends with the message that took it over its limit; `LoggerTypeOK` | three messages, the first one larger than a file; a queue of two (it is full), two starts, both builds, spurious wake-ups; a ring of two files, two days, one failing `localtime`, `fopen` or `fprintf`, files found at the start; about 780 000 states |
| `user` | `PoolPartition`, `GrantExclusive`, `FailureTriedAll`: the search gives up only when each port it was offered was taken meanwhile or could not be probed; `AllOrNothing`: an `initialize` that has returned leaves a complete receiver or nothing; `RaceOnlyInInitialize`: the recv thread meets a half built or deleted receiver only while `initialize` is at work on it; `InitializeReturns` | two ports for three sockets, so that the pool runs dry and recycles with sockets open; probe sockets that cannot be created; a reorder list of two; about 190 000 states |
| `ws` | `ConnectionSound`: mongoose lists no connection but the client's, and a connected client's is open; `ImplementsLink`; `DeleteCloses`: the destructor leaves no connection, unless the timer fires in its last poll; `LeaksOnce`: once the network is calm at most one socket is left open for good; `Reconnects`; `TypeOK` | two addresses (one can be reused while the other is new), two texts per connection, one frame in flight, one message queued, up to two leaked sockets counted; about 310 000 states |
| `conversions` | `UnitsFound`: a stream is taken apart into its units, and they are counted and found, as Annex B says where no zero bytes trail a unit; `HeadersParsed`: ADTS fields, AAC frames, Exp-Golomb numbers and emulation prevention; `Utf8Accepted`; `JsonReadBack` | every input of up to 7 bytes over the bytes that start codes and slices are made of, at four alignments, bare and inside other bytes; 7 bytes of a unit over {0, 1, 3}; four audio frames; five bits; four bytes over the limits of all UTF-8 ranges; strings of five characters with quote, backslash and line end; arrays of up to 12 elements |
| `reorder_audio` | `ListSound`; `ReturnsEarliest`; `DeliversInOrder`: packets come out in order and at most one that arrived never does | seven packets, list of two, displacement of two, two duplicates, any loss |
| `h264_stream` | `IntactAfterMarker`; `OneDeliveryPerMarker`; `OverfullAfterExactFill`: a packet exceeds RTP_PAYLOAD_SIZE only once its first units have filled it exactly | packets of three bytes, frames of up to three units that fit, fill a packet exactly or take three fragments, aggregations that the receive buffer takes whole, cuts between two units or cuts within one, buffers smaller than the largest frames, three frames (a damaged, a merged and an intact one), any loss; about 1.2 million states. A frame is sent when the one before has left the network: sender and receiver share nothing else, so sending earlier adds nothing |

Runs that show what the code does and a comment denies (the findings):

| Run | Shows |
| --- | --- |
| `room_resend` | After leaving a room and joining again there are no senders: `remove_sender` deletes them, only `initialize` creates them. |
| `queue_emptypop` | The POSIX consumer pops an empty deque when a signal arrives after its message was taken. |
| `reorder_video` | Video packets come out in the wrong order once 16 bits of sequence number wrap, on a network that keeps the order. |
| `ws_race` | `send_text` tests the connection before it takes the mutex, and mongoose frees connections without it: `mg_ws_send` works on freed memory. |

Further divergences met while modelling, without a run: `on_ws_conference_join`
raises the joined event also for a response that it did not adopt; a `put`
admitted before `stop` may push its message after `clear_msg_queue` has run;
`push_packet` returns false for a fragment that it took without an error
(`rtp_h264_frame_assembler.h:31` says true); `on_ws_conference_online_users`
puts the client itself into `m_other_users_map` ("other RoomUsers",
`app_meeting_room.h:432`); `main.cpp` registers its callbacks after
`initialize` has started the threads, so `g_room_connected` can miss a
connection, but nobody reads it; `get_udp_port` gives up when the remaining
available ports are taken although ports it counts as in use are free, and
`RoomUser` reports "No available ports". Responses are not matched with
requests, so a late one clears `m_is_signal_running` ("is the room processing
signal ?", `app_meeting_room.h:488`) while its successor is unanswered. When the
collected NAL units fill a packet exactly, the test that closes it is false
from then on and the packet grows past "the rtp packet payload size"
(`rtp_h264_packet_builder.h:11`); `OverfullAfterExactFill` shows that nothing else
does this. Such a packet may exceed the receiver's 2048 bytes as well
(`rtp_session_receiver.h:10`): it is cut, refused, and its frame is not delivered. `RoomUser::initialize` publishes `m_major_receiver` before it is
initialised: the recv thread may use it without a transmitter; `user` shows that
this window closes when `initialize` returns. `on_timer` leaks a socket with
each attempt that it gives up, and a connected client whose peer falls silent
never notices (pings have no deadline). `AppLogger::initialize` ignores a
failing `start`; a line whose `localtime` or `fprintf` fails is lost without a
trace; messages left in the queue at `stop` are destroyed unlogged; a
failing `fopen` leaves the ring out of step, so that a later file is skipped; a
text of more than 4000 characters is passed on with the length it would have
had. `count_aac_frames` ("the aac frames count", `codec_utils.h:73`) never
returns for a frame length of 0. `avc_find_start_code` takes one zero byte to
the next start code and none to the end (`codec_utils.cpp:74`), and finds no
start code in the last three bytes: trailing zero bytes, which Annex B puts
outside the unit, and a start code that ends the stream are sent as part of
the unit before. `de_emulation_prevention` loses a 3 of the unit where 0 3
follows a byte it removes, and for sizes 0 and 1 its limit `size - 2` wraps
(`codec_utils.cpp:328`), so that it runs out of the buffer. `is_utf8_chars`
("check if the string is utf8 string", `common_utf8.h:8`) refuses U+FFFE, which
is well-formed, and looks at the string up to a NUL only; `is_utf8_str` with the
same promise (`common_utf8.h:17`) accepts all well-formed strings and also
others, such as overlong forms. JSON: keys are
not escaped, a value is escaped in place and so twice when written twice,
negative numbers and null are not read back, arrays of more than ten elements
come out in the order of their decimal keys. `send_h264_data` tests and uses a
sender that a handler may delete; `main.cpp` shows its callers only in
comments, so that there is no thread to model. A response with an error status
leaves the signal marked as running for six seconds of processor time.

Deadlock checking is on in every run. `Done` (`LogDone`) is the end of a bounded
run, not a deadlock, and `Halt` a program of which nothing more is said.

### Fairness

* `MeetingRoom`: the recv thread keeps running (WF). The ws thread's handler
  steps are strongly fair: a step that needs the mutex is enabled again and
  again, because `receive_loop` sleeps without it, and pthread mutexes let a
  waiter in then. The test of the ws flag between two pulses is strongly
  fair as well, because a pulse returns after bounded work whatever arrives.
  `free_context` keeps going (WF). Nothing is assumed of the server, the
  connection, or of who calls what.
* `AppLogger`: threads that have begun a call, and the consumer, keep going
  (WF). Nobody is obliged to log, start or stop. `StopCompletes` and
  `AcceptedIsLogged` exclude a POSIX consumer that has popped an empty deque.
* `RoomUser`: the ws thread does not stop in the middle of a call (WF). No
  step inside a call waits for the recv thread, so nothing is assumed of it.
* `WSClient`: the pulse loop keeps polling, the clock advances, a call of
  `send_text` ends and a server that is asked accepts the upgrade (WF each).
  `Reconnects` speaks of a network that has become calm: nothing is assumed of
  the attempts before.

## 4. Proofs

TLAPS checks all theorems from the named assumptions on the constants only
(`ConstantsAssumption`, `PortsAssumption`, `UserAssumption`,
`ReorderAssumption`, `QueueAssumption`, `LoggerAssumption`, `WSAssumption`,
`SizeAssumption`, `LengthAssumption`): any set of participants or producers, any number of
memberships, messages, ports, packets, files and frames.

**MeetingRoom_proofs.** `TypeCorrect` is `Spec => []TypeOK`, one step per
action. `OneReceiveThread`, `KnownUsers`, `TeardownClean` and `SendersTogether`
prove `ReceiveThreadTracked`, `ReceiversOnlyForKnownUsers`, `TornDown` and
`SendersInitTogether`. They are not inductive alone; `ThreadInv` adds who may be
where:

* `LockHeld`: the mutex is taken exactly in the body of `receive_loop`;
* `Phases`, `Running`: past `JoinWs` the ws thread is gone and the recv flag is
  down (so nothing can start a recv thread while `free_context` waits for it),
  and the ws thread lives from the start window of `initialize` to
  `free_context`;
* `Gone`: a room without a client owns nothing;
* `Making`: what `initialize` has not made yet in the start window, so that no
  handler can ready a sender there;
* `Leaving`: what a leave handler has already got rid of at each step;
* `Pulling`: only pull_stream holds a user pointer.

`MapStable` (`Spec => UsersStableWhileReceiving`) follows from `LockHeld`: the
three handlers that change the map need the mutex, and `free_context`, which
does not take it, has joined the thread. `LeavingCleans` (`Spec =>
LeaveCleans`) uses `Leaving` and a second invariant, `EnterNamed`: a response
that enters a room names a membership, so that adopting one cannot look like a
leave. `MembershipHolds` (`Spec => []MembershipSound`) needs to say where the
answers of older memberships can be: a response on its way that grants a
membership grants the one the server keeps, or a message that ends it comes
behind it (`EntersCurrent`); and a leave handler has given up the identity when
it reaches the callback (`LeaveSteps`).

`SessionImplemented` (`Spec => ImplementsSession`) shows the refinement: the
initial states map to `SessionInit`, and `SessionStep` maps every action to a
step of `RoomSession` or to a stutter. Media starts only in a
phase `on`, because a handler that enters a room and one that leaves are the
same thread and `free_context` has joined it (`Phases`); what a leave has done
at each step is `Leaving`; and that `Enter` takes a newer room is `EntersFresh`:
the rooms that messages on their way enter are newer than the one held, each
newer than the one before.

`WaitsAnswered` and `JoinsEnd` are the safety halves of `LeaveCompletes` and
`TeardownCompletes`. `WaitsSound` says, for each place where a thread waits, that
what it waits for can come: the mutex is held only in the body of
`receive_loop`, a thread that is joined has its flag down, and the recv thread
is never joined by one that holds the mutex. `JoinsProgress` gives the measure:
the recv thread has at most three steps left when it is joined, each of its
own steps takes one away and no step of another thread adds one. Fairness
alone is then missing for the two liveness properties.

**AppLogger_proofs, the queue.** Its first part is about `MsgQueue`. `TypeCorrect` and `Fifo` from `QueueInv`: a producer that got
past the test of the flag has a message, and what was taken followed by what is
queued is what was pushed. `WakeupsKept` is the safety half of `StopCompletes`,
by `WakeInv`: a consumer that waits although there is an item will still be
signalled (`NoLostWakeup`), from the moment `stop` has put its message there is
something for the consumer to take (`StopSeen`), and `stop` never joins a
consumer that nobody is going to wake (`JoinNotStuck`).

**AppLogger_proofs, the logger.** `LogSpec` implements the queue's steps, so `LoggerFifo`
takes over what is proved of it. `LoggerTypeCorrect` is the type invariant.
`FilesCorrect` proves `FilesSound` by `SoundInv`: the open file is a final part of
the log, and `m_printed_size` is what is in it until it is over its limit.
`LogOrdered` states more than the runs check: each producer's messages are in
the log in the order it made them and none twice, over dropped messages,
rotations and restarts (`OrderInv` follows a message through queue, consumer
and log). `RetentionCorrect` proves `Retained` by `RetainInv`: as long as no call of
`write_log` has failed, the file of an entry is as many places behind `m_seq` in the ring as
later files of its day have been created (`EntryOK`), so that it is overwritten
by the `MaxFile`-th of them and not before.

**WSClient_proofs.** `ClientInv` has five parts: types (`BaseOK`), what the
pointers say of mongoose's list at each place of a poll (`PlaceInv`), what the
server may say next (`TextsInv`), the destructor's poll (`ClosingInv`) and the
frames on the way (`StreamInv`: what is in the receive buffer leads, frame by
frame, from the place the client has reached to the place the server has
reached). `TypeCorrect`, `PointersSound` and `DestructorCloses` follow at once,
and `LinkImplemented` (`Spec => ImplementsLink`) maps each action to a step of
`WSLink` or a stutter. `LeaksOnlyOnce` (`Spec => []LeaksOnce`) needs `LeakInv`
besides: once a socket has been left behind on a network that is well, the
attempt under way began after that, its server is up and the answer is on its
way or about to be sent, and the timer is not due before it is taken.

**RoomUser_proofs, the pool.** Its first part is about `PortManager`. `Partition` (`Spec => []PoolPartition`) from lemmas on
taking the head off a list without repeats, appending a new element, and
listing a set of ports in order. `SearchCorrect` proves `GrantExclusive` and
`FailureTriedAll` with the loop invariant `Searching`: every port that was
offered and has been free ever since is still in the list or could not be
probed.

**RoomUser_proofs, the user.** The actions are built on those of `PortManager`
(lemma `UsesPool`), so that `UserPorts` takes over the pool's invariants. `InitializeAllOrNothing` proves `AllOrNothing` from
`UserInv`: the ws thread asks for the receiver it is busy with, that one is
`Underway` (up to the bind there is a granted port and no socket; socket,
assembler and buffer come in this order), and any other is `Nothing` or
`Complete`. `RaceConfined` proves `RaceOnlyInInitialize` with `RaceInv`: the recv
thread holds the mutex from the test of a pointer to its use, which a removal
excludes, and while nothing undefined has happened the pointer it has tested is
set; with `UserInv` a receiver that the ws thread is not initialising is then
complete. `UserTypeCorrect` is the type invariant.

**ReorderReceiver_proofs.** `ListCorrect` (`Spec => []ListSound`) holds for
audio and video and when numbers wrap; its core is `InsertSorted`, that the
search from the back finds the place that keeps the list strictly sorted.
`Earliest` proves `ReturnsEarliest` for streams that satisfy `NoWrap` (2^32 audio
packets, 2^16 video packets), with `Full`: from the first packet that comes out
the list has exactly reorderLen packets, so that a late packet goes in front and
straight out again. `OrderedDelivery` proves `DeliversInOrder` if, besides, no
datagram is overtaken by more than reorderLen others. It counts: a datagram has
been overtaken at least as often as packets sent after it were received
(`NetInv`), and what came out or is in the list was received (`KeptInv`). Were a
datagram to come out behind a later packet, that packet and the full list
would all have overtaken it, which is one too many (`NotOvertaken`). The run
`reorder_video` shows that without `NoWrap` it fails.

**H264Stream_proofs.** The builder is a fold, and its text a flattened sequence.
A property of every input is proved by induction over the length, put as a
statement about a set of numbers (`Induction`, from the well-foundedness of `<`);
that the library's folds obey their recursion is proved the same way
(`FoldExists`, `FlattenRec`, in `FoldInduction`). `Collected` is the loop invariant of
`receive_rtp_packets`: the packets built so far followed by the units collected
are the text of the units seen, the packets are in order (`Good`: fragments follow
each other, every unit that is begun is ended) and what is collected exceeds
RTP_PAYLOAD_SIZE only behind an exact fill (`Filled`). `BuiltCorrect` concludes that
the packets carry the frame. `StreamInv` then follows them to the callback: the
wire has packets of frames in the order of sending, nothing that arrived was
sent after them, `m_h264_rtp_buffer` is empty after each marker that was taken
(`Emptied`), and while the packets of a frame come uncut and without a gap after one, that buffer and the
fragments behind it are the text of the packets so far (`Gathered`).
`FramesIntact`, `MarkerDelivers` and `OverfullOnlyExact` are its consequences.

**Conversions_proofs.** Three of the conversions are proved right for every
input, not only for those of the run. A loop over positions is a recursive
function on an interval; that such a function exists is first proved from the
well-foundedness of `<` (`ReachExists`, `WalkExists`), and two loops are then
compared from the end of the input downwards (`Descent`).

* `Utf8Exact`: for every byte string (without a NUL for the first, which stops
  there), `is_utf8_chars` accepts exactly the well-formed texts without U+FFFE, and `is_utf8_str` accepts every well-formed
  one. `CharChecked` is one round of the loop: the number of leading ones, the
  minimum per length, the surrogates and the limit of the range leave exactly
  the rows of Unicode's table 3-7. `Utf8Correct` is the run's `Utf8Accepted`.
* `UnitsExact`: for every byte stream and every alignment of its buffer,
  `send_data` returns exactly the units of Annex B if the stream is `Tidy`, and
  if not the same ones with what `avc_find_start_code` leaves behind them; and
  the functions that count or look for frames see each unit once, with its type. The core is
  `SearchExact`: the bytes before the first word, the words, each of which
  answers for the start codes that begin in it (`WordOf`, `WordsApart`), and the
  bytes behind the last word leave out no position, so that the search finds
  the first start code there is. `UnitsAreSpans` compares the walk from one
  code to the next with the units between the codes. `UnitsCorrect` is the
  run's `UnitsFound`.
* `AacExact`: for every stream of AAC frames, `count_aac_frames` gives their
  number, and never returns exactly when a header says that its frame is empty.
  `FramesLaid` says where the frames lie in the stream; `AacCorrect` is the part
  `AacCounted` of the run's `HeadersParsed`.

Only model-checked: the liveness properties (`LeaveCompletes`,
`TeardownCompletes`, `StopCompletes`, `AcceptedIsLogged`, `InitializeReturns`,
`Reconnects`), since TLAPS does not reason about fairness; of `HeadersParsed` the
ADTS fields, Exp-Golomb numbers and emulation prevention, whose shifts, masks
and powers of two are beyond the arithmetic of the provers for numbers of any
length; and `JsonReadBack`, since TLAPS does not handle
`RECURSIVE` operators.

## 5. Not modelled, and the plan

Not modelled: audio data and the contents of NAL units; the wording of
messages, addresses, uuids, time and file helpers; the logger's synchronous
mode, which nobody selects; the list of a transmitter's destinations, which a
single thread changes; `h264_decode_sps`, a list of fields read with the modelled
`Ue`, `Se` and bits; the rest of mongoose (HTTP, MQTT, TLS, SNTP, files, the
server side), which the program does not use; what becomes of descriptor 0,
which mongoose closes when an attempt fails before it has a socket
(`mongoose.cpp:3451`: the field is 0 from calloc); data races on plain flags beyond
the interleavings above. The repository also carries mongoose a second time
with its examples (`thirdparty/`, among them microcontroller headers): they are
not part of the program, and most lines of the repository are theirs.

Done: `MeetingRoom` with `RoomSession`, `PortManager`, `ReorderReceiver`,
`MsgQueue`, `H264Stream`, `RoomUser`, `WSClient` with `WSLink`, `AppLogger`, the
conversions, and the proofs of section 4: every safety property of the passing
runs is a theorem, except `JsonReadBack` and most of `HeadersParsed`. Left:

1. The removal of emulation prevention for units of any length: which bytes the
   scan takes out of what it has just joined.
2. The senders' destinations and `h264_decode_sps`, if a second thread or a
   second caller ever uses them.
