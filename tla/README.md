# TLA+ models of xgc2-stt-service

This directory holds a formal model of the speech-to-text service, its proxy, its
desktop client and the capture of its web page: TLA+ modules translated from the
source under `src/xgc2_stt` and `web/src`,
TLC configurations that check them on small instances, and proofs for all
instances that TLAPS checks. `PROJECT.json` says which lines every definition
stands for, which run checks which property, what a plausible bug would have to
break (the operators marked `Fault:`), and where the code is hard to test.

## 1. The system

A browser or the desktop client sends microphone audio over a WebSocket; the
service cuts it into segments at pauses and passes it to a model server it runs
as a child process. API keys, runtime settings and a restart of the model are
administered over HTTP.

| Part | Source | State it keeps | Operations | What is hard |
| --- | --- | --- | --- | --- |
| Streaming session | `streaming.py` | two pending tasks, commit flags, silence count, gate, rollover | browser message, model event, replay, finally | two tasks completing at once; a commit during a cut; audio held and replayed; a pause that is a sum of floats; any call raising |
| Model session adapter | `engine.py` 81-194 | buffer, event queue, finished | open, send_pcm, commit, receive, close | remainder at commit; a failure in mid-chunk |
| Engine lifecycle | `engine.py` 238-580 | process, group id, monitor task, state, settings | start, close, reconfigure, monitor | every await is a place to interleave; launchers die before their workers; a termination may be given up or raise |
| HTTP service | `main.py`, `runtime_settings.py` | gate, config, stored settings | admit, transcribe, PUT settings, restart, shutdown | settings copied before an await and written back after it |
| API keys | `api_keys.py` | records, dirty flag, flush task, file | create, rotate, revoke, usage, flush, load | a thread dumps records that change under it; crashes between memory and file |
| Desktop controller | `desktop.py` 644-911 | state, worker, capture | toggle, callbacks, shutdown | callbacks queued by threads that do not say whose they are; the main loop runs inside a read of the clipboard |
| Desktop worker | `desktop.py` 244-340 | outgoing queue, socket | feed, commit, cancel | ends on its own at any moment |
| Text injector | `desktop.py` 361-426 | staged text, two clipboards | begin, stage, commit, end | the clipboard is shared with the user |
| Microphone | `desktop_audio.py` | stream, reader thread, two locks | start, callbacks, stop | callbacks against stop |
| Hotkeys and settings | `desktop.py` 107-232, 644-742, 837-870, `desktop_support.py` 77-108, 237-248 | listener threads, binding, settings, two files | start, stop, replace, confirm, save | threads that are late; replacement and saving with rollback |
| Insertion, IPC | `desktop_support.py` | none; a socket | copy, paste, toggle a running instance | helpers that are not there |
| API proxy | `api_proxy.py` | two pumps, two connections | forward | one pump ends and cancels the other, with what it holds |
| Browser client | `web/src/stream.ts`, `web/src/App.tsx` | socket, media, audio context, pending audio, capture state | start, stop, clear, cancel | handlers that overlap at every await and share one object; a connection that is closing is still the current one |
| Auth, metrics, CLI, packaging | `auth.py`, `gpu_metrics.py`, `desktop_cli.py`, scripts | | | pure parsing, sampling, build automation |

The parts meet as follows. `main.py` takes a slot of the gate, counts the use of
the key and calls `handle_stream`, which opens model sessions through
`VllmEngine.open_session`. A restart is refused while a slot is taken, and then
replaces the engine while requests go on being admitted. The desktop worker and
the browser are the peers of `handle_stream`, directly or through the proxy. The
hotkey's only effect on the rest of the client is to call its toggle.

What makes each part correct:

- **stream**: speech is neither lost nor reordered nor repeated; a cut comes when
  the pause is long enough, and not before; each session that is opened is closed; a commit, a
  cut and a departed client come to an end;
- **engine**: one engine on the GPU at a time, none forgotten, `ready` only for a
  loaded one, nothing left after close;
- **service**: the gate counts what is running; settings shown as in effect are;
- **keys**: what was answered is durable; what is not dirty is written; counts of
  sessions do not outlive them;
- **desktop**: the microphone is open exactly while the client says so; sessions
  are not forgotten; the clipboard is given back; a stopped recording ends;
- **microphone**: nothing is heard after a stop, and a stop returns; nothing is left
  open; audio is resampled from its own rate; a capture that goes silent says so;
- **hotkey**: no shortcut but the current one is grabbed; what the settings say is in
  the files and in effect;
- **proxy**: messages arrive without a gap; the answers of a service that ends are not
  lost; each peer learns of the other's end;
- **browser**: a page that is idle has let go of the microphone and the session; audio
  of one session is not sent to the next; a stopped capture ends.

## 2. Modules

| Module | What it models | Correspondence |
| --- | --- | --- |
| `TranscriptStream` | what a client of the stream is promised | abstract specification |
| `StreamSession` | `handle_stream`, with the model session as its environment | a state of the model is the coroutine at `asyncio.wait` or inside a turn; `done` is the set returned by the wait; one action per kind of message and event; `ProcessPcm` has a disjunct for each way a chunk can go |
| `EngineLifecycle` | `VllmEngine` and its processes | an action runs from one await to the next; `call[k].pc` is the await a caller of `reconfigure` is at, `monitor[m].pc` that of a monitor task; a process stands for its group, whose termination is one step with three outcomes: all of it ended, some of it outlived SIGKILL, the call raised |
| `SpeechService` | `main.py` around the engine; extends `EngineLifecycle` | the handlers as actions; `config` is what the settings page shows, `store` what is stored, `snapshot` the hot half of `next_config` |
| `ApiKeyStore` | `api_keys.py` | event-loop calls are atomic up to their flush; the worker's flush reads each record in two steps, its counters first; the loop's task, the thread and the file are separate |
| `DesktopClient` | `ClientController`, `StreamingWorker`, `TextInjector` | a GTK callback runs to its end or until it reads the clipboard; `wait_for_text` runs the main loop, so the calls that wait there are a stack (`waits`), and keys and callbacks run above them until the innermost has its answer; callbacks are taken from the queue `ui` in order; each worker thread has its own actions |
| `AudioCapture` | `desktop_audio.py`: start over its candidates, callbacks and reader, stop | the client's thread and the audio thread interleave at every lock and blocking call; a candidate is one backend, rate and way of reading; `opened` and `libraries` are what PortAudio holds |
| `DesktopHotkey` | `ExclusiveX11HotKey`, `_start_hotkey`, `_replace_hotkey`, the settings dialog's confirmation and the files it writes | the GTK thread stops at each wait of its own and before each file (`gtk.at`), the listener threads go on meanwhile; `doing` is why it waits, `other` the settings it holds in a local variable |
| `ApiProxy` | `forward_websocket` between a client and a service | each pump is at its receive or its send; the handler is at its connect, its `asyncio.wait` or a close; the queues are what each connection holds |
| `BrowserCapture` | `MicrophoneStream`, and the handlers of `App.tsx` that use it | each handler in flight is an element of `call`, at its await; what follows an await at once is a microtask and comes before any other event (`Calm`); a connection is named by the order of its making, a microphone by its start; a connection the service closes is current, and not open, until its close event |
| `MC*` | instances for TLC | |
| `StreamSessionProofs`, `ServiceProofs`, `ApiKeyStoreProofs`, `DesktopClientProofs`, `AudioCaptureProofs`, `DesktopHotkeyProofs`, `ApiProxyProofs`, `BrowserCaptureProofs` | theorems and proofs about the module of that name (`ServiceProofs`: `SpeechService`) | |

Abstractions shared by the modules:

- **Audio** is a chunk with a number, loud or not, and a length; a length stands for
  bytes and for time alike. `silence_threshold` is always 250 in the callers of
  `handle_stream`, the gate's own threshold, so one attribute serves both. The
  pre-roll may cut inside a chunk; the model counts such a chunk as kept. The code adds up a
  pause as floats, which matters only when it is exactly the limit: there the model takes
  either way (`Cuts`).
- **Text** is left out, except where the desktop model asks whether any is staged. A
  message through the proxy is its number.
- **History variables** are there for properties only, and no guard of the code's reads
  them: `spoken`, `overflowed` (stream), `survivors`, `unended` (engine), `acked`, `unread`
  (keys), `astray`, `unheld`, `mine` and the session noted with a GTK callback (desktop),
  `heard`, `told` (microphone), `said`, `heard` (proxy; `said` is bounded), `mishaps` (hotkey),
  `overlapped`, the `of`, `stale` and `late` of a connection and what is noted with a chunk
  that is kept (browser). `mishaps` of the desktop only counts what is bounded.
- **External code** (the peer, the model server, the user) may do anything its
  interface allows, at any time.

## 3. Runs

| Run | Instance | Shows |
| --- | --- | --- |
| `stream` | 4 chunks of 4 kinds (loud or not, one or two units), a cut after 2 units, 3 units of rollover, 1 partial a session; fairness | order, no loss, cut at the pause, flags, one model session; refinement of `TranscriptStream`; commit, cut and departure end |
| `service` | 2 processes, 1 restart at a time, 2 clients, 2 slots, 2 tunings, 1 silence delay, writes may fail, terminations may be given up or raise; fairness | the engine and the gate: one engine, none forgotten, ready means loaded, but for terminations given up; settings and slots are what they say; a start is decided, an exit noticed |
| `keys` | 2 keys, one with 2 secrets, a use and 2 streams, the other created and revoked beside it; failing writes, crashes; fairness | durability, dirtiness, close, counts of sessions; usage reaches the file |
| `desktop` | 2 recordings, or 1 and a shutdown; 1 mishap (a microphone that fails, or a key while a call waits for the clipboard); 1 callback queued by a live session beside those that end one; reads of the clipboard 3 deep; one text the user may copy, beside none; fairness | microphone, sessions and clipboard are what the state says, but for sessions that went astray; a stopped recording ends |
| `microphone` | 2 backends, 2 rates, by callback and by reader, any of them failing; fairness | silence after a stop, rates, nothing left open, failures told, the stop returns |
| `hotkey` | 2 keys, 3 settings (one the defaults), 3 listener threads, on X11 and on Wayland, starts that find the file unreadable; fairness | no ghost shortcut, settings in effect, keys given up |
| `proxy` | 3 messages each way, connections that hold 1; fairness | no gaps, answers arrive, ends are told |
| `browser` | 3 connections, 2 handlers at once, 1 chunk pending; fairness | idle is quiet, no stale audio but what is kept while the service closes a connection, a stopped capture ends |
| `stream_commit_loss` | unit chunks, a cut after 1 | *violation*: a commit during a cut drops the held speech |
| `service_hot_lost` | 1 restart | *violation*: a hot setting changed during a restart is undone by it |
| `service_orphan` | 2 restarts at once, 3 processes | *violation*: an engine survives close |
| `desktop_stop` | 1 recording | *violation*: a stop while connecting is overwritten |

Why the bounds are enough. The interesting cases of the stream need one cut, audio
held over it, an overflow of the rollover and a second cut during the replay:
four chunks, of which one that is two units long overflows what is left, reach all of
them. Two engines collide with two processes: one being terminated and one starting.
Two keys are what it takes for the worker's dump to be between two records; two
secrets make a rotation. A late callback needs a session and a successor, so
two recordings; a microphone that fails, or a key that comes while a call waits for the
clipboard, is enough to leave a session behind, and callbacks and threads need no mishap to run inside
a call: one is enough (with two the run passes as well, on 627,853 states and in about four
minutes). A callback that ends a session inside the `end` of another, inside a shutdown, is three
calls deep. The delay of `service` is one value only because nothing of the engine looks at it; the
hot settings have two values in `service_hot_lost`. The microphone's eight candidates have each pair of
neighbours that differ in backend, rate or way of reading. A replaced shortcut needs
the current listener, the new one, and one that is still late from before: three. Which keys other
applications hold needs no variable: a key that no listener of the client holds may be refused
at any moment. A pump of the
proxy holds one message while one waits on each side of it: three. In the browser every
pair of handlers can overlap, and a capture can be cleared and started again: two calls, three
connections; one chunk is enough to be stale. The theorems below remove the bounds for the
properties they name.

Deadlock is checked by `stream`, `keys` and `service`, whose terminal states are
explicit stutters (`Closed`, `Stopped`) or do not exist. `desktop`, `microphone`, `hotkey`,
`proxy` and `browser` may stop: a client that has been closed, a microphone that is stopped,
listeners that are all late, a connection that has ended and connections used up do
nothing more.

### Fairness

- `StreamSession`: weak fairness of the handler's own steps: the event loop runs
  what can run and each HTTP call to the model has a timeout (`engine.py:106`).
  Strong fairness of reading a departed client's messages: those in flight are
  finite and the disconnect is the last of them. Nothing is assumed of a client
  that is there, nor of a model session beyond answering its commit.
- `SpeechService`: weak fairness of each caller and monitor (every await has a
  deadline, so a termination ends, gives up or raises); strong fairness of the poll loop's deadline. Nothing of clients, of
  loading or of crashes.
- `ApiKeyStore`: weak fairness of the flush of a call and of the worker thread.
- `DesktopClient`: weak fairness of the GTK queue, of the clipboard's answer (GTK gives up
  waiting for an owner that says nothing) and of each worker thread, and of the server's answer to a commit, which is `CommitEnds` of the stream. The worker
  has no timeout of its own for that answer (a hazard).
- `DesktopHotkey`: weak fairness of the GTK thread, whose waits all have a timeout, and
  of the listener threads; nothing of the user or of other applications.
- `ApiProxy`: weak fairness of every step of the handler and its pumps; of a connection
  that is made or refused (`open_timeout`); of a client that stays and reads; of a service
  that reads while it listens and ends after a commit. Nothing of what either says.
- `BrowserCapture`: weak fairness of what follows an await, of the timeouts and of the close of the
  audio context; that a connection told to commit is answered or closed. Nothing of the user,
  nor of the answer to a request for the microphone.
- `AudioCapture`: weak fairness of the client's calls and of what the audio thread does
  with audio it has (no step of it blocks); nothing of a read, which the device may
  keep for ever. PortAudio is assumed to wait for a callback under way when a stream
  is stopped or closed, and to begin no other.

## 4. Findings

1. **A commit during a silence cut loses speech** (`stream_commit_loss`,
   `streaming.py:289`). The flag is already set, so no second commit is sent; the cut's own
   `done` is announced as the session's last, and the rollover is dropped.
2. **A hot setting changed during a restart is undone** (`service_hot_lost`,
   `main.py:194`). `next_config` is a copy from before the await.
3. **Two restarts at once orphan an engine** (`service_orphan`, `engine.py:338`). The web page
   does not disable its button, and the service does not serialize the calls. The
   theorems on the engine therefore assume one restart at a time.
4. **A stop while connecting starts the microphone** (`desktop_stop`, `desktop.py:783`).
   `_start_audio` looks at the worker, not at the state.

Besides these, the models have behaviours which no document rules out, but which shaped the
properties; each is the reason of an exception in one of them:

- A pause of exactly the limit may be found a chunk late: at 1000 ms ten chunks of 100 ms sum
  to 0.9999999999999999 seconds (`streaming.py:237`, `CutAtSilence`).
- After SIGKILL the engine waits five seconds for the launcher and five for its group, and
  does not look at how that ends (`engine.py:534-535`): what is left is forgotten, and a restart
  starts the next engine beside it. The listing of the group may raise `TimeoutExpired`
  (`engine.py:489`), which passes through `close` and `reconfigure`: the process is forgotten
  too, the state stays `loading` or `ready` with no engine behind it, and the port may
  still answer. `OneEngineOnGpu`, `NoStrayProcess`, `CloseLeavesNothing` except a process given up in
  one of these ways; `ReadyIsLoaded`, `SessionFitsEngine`, `LoadingEnds` and `ExitIsNoticed` the
  second.
- A session of the desktop client may go *astray*, in four ways. A failed microphone
  ends it in the controller without cancelling its worker (`desktop.py:822`): the
  thread goes on, and its callbacks reach the next session. It is ended by such a
  callback. It is stopped while its `begin` reads the clipboard, which runs the main
  loop: with no worker yet the stop goes straight to `idle` (`desktop.py:797`), and the outer call then
  leaves a live worker in state `idle`, which the next start overwrites. Or it is started while another
  call waits for the clipboard: that call, when it goes on, sets the state to `idle`. `NothingForgotten`
  and `ClipboardGivenBack` except a session gone astray; `MicMatchesState` is asked for again once
  all such sessions are over, and without them also that no open microphone is replaced.
- While `end` reads the clipboard the microphone is closed and the state still `recording`
  (`desktop.py:828-831`); `MicMatchesState` excepts that wait.
- `stop` of a listener waits two seconds; when that passes, `_replace_hotkey` raises and keeps
  as current a listener that has been told to stop. A rollback may fail to grab the old key
  again, and a listener that dies tells nobody. A failure or a crash between `client.json` and the
  autostart file leaves the first with the settings refused; and a client that finds
  `client.json` unreadable shows the defaults (`desktop_support.py:82-95`). `SettingsInEffect` excepts
  these, the key until the next start and the files until the next save, and says nothing of a key
  where there is no listener (Wayland, or no start that succeeded).
- The proxy drops what the service's pump holds when a client goes on talking to a service that
  is gone: the send raises, and the other pump is cancelled (`AnswersArrive`).
- In the browser nothing keeps handlers apart (`IdleIsQuiet`, `StopEnds`). A cancel while
  connecting lets the start go on, to a recording without a session. A clear during the
  cancel of a recording, or two clears, may leave a session that nobody closes and that holds a
  slot. A second start, after a cancel of the first, may leave its microphone on. Without any
  overlap a connection that opens after its ten seconds stays open (`late`), and one closed by the service
  while the user is asked for the microphone leads to a recording without a session, whose stop
  sends no commit and stays in finalizing until it is cancelled.
- Between the service's close frame and the close event a connection is current and not open:
  the page keeps the chunks that come (`stream.ts:79-84`), and neither the close listener
  (`stream.ts:118-123`) nor `start` drops them, so that the next capture begins with them
  (`stream.ts:129`). `NoStaleAudio` excepts these chunks, each marked `closing`. It also excepts a
  start that begins while another is in flight, or while the audio of an earlier capture is
  being released; it holds through every other overlap.

## 5. Theorems

TLAPS proves the following for every value of the constants. Together they are every
invariant that a run checks, the types of every component, and the refinement of
`TranscriptStream`.

| Theorem | Property | Assumptions |
| --- | --- | --- |
| `StreamSessionProofs!TypeCorrect` | `TypeOK` | those of the module |
| `StreamSessionProofs!FlagsAlwaysAgree` | `FlagsAgree` | those of the module |
| `StreamSessionProofs!NoSessionLeaks` | `OneModelSession` | those of the module |
| `StreamSessionProofs!SpeechIsKept` | `NoSpeechLost` | those of the module |
| `StreamSessionProofs!AudioStaysInOrder` | `AudioInOrder` | those of the module |
| `StreamSessionProofs!CutsComeWithPauses` | `CutAtSilence` | those of the module |
| `StreamSessionProofs!PromiseIsKept` | `KeepsPromise` | those of the module |
| `ServiceProofs!ServiceTypes` | `TypeOK` | those of the module |
| `ServiceProofs!SlotsAlwaysMatch` | `SlotsMatch` | those of the module |
| `ServiceProofs!EnginesDoNotOverlap` | `OneEngineOnGpu` | `OneRestart` |
| `ServiceProofs!NoProcessIsForgotten` | `NoStrayProcess` | `OneRestart` |
| `ServiceProofs!ReadyEngineHasLoaded` | `ReadyIsLoaded` | `OneRestart` |
| `ServiceProofs!NothingSurvivesClose` | `CloseLeavesNothing` | `OneRestart` |
| `ServiceProofs!SettingsShownAreRunning` | `ShownIsRunning` | `OneRestart` |
| `ServiceProofs!SessionsFitTheirEngine` | `SessionFitsEngine` | `OneRestart` |
| `ApiKeyStoreProofs!TypeCorrect` | `TypeOK` | those of the module |
| `ApiKeyStoreProofs!SessionsCounted` | `SessionsNotOvercounted` | those of the module |
| `ApiKeyStoreProofs!CleanWritten` | `CleanIsWritten` | those of the module |
| `ApiKeyStoreProofs!ClosedWritten` | `ClosedIsWritten` | those of the module |
| `ApiKeyStoreProofs!AckedDurable` | `AckedIsDurable` | those of the module |
| `DesktopClientProofs!TypeCorrect` | `TypeOK` | those of the module |
| `DesktopClientProofs!MicrophoneMatches` | `MicMatchesState` | those of the module |
| `DesktopClientProofs!NoSessionForgotten` | `NothingForgotten` | those of the module |
| `DesktopClientProofs!ClipboardReturned` | `ClipboardGivenBack` | those of the module |
| `AudioCaptureProofs!CaptureTypes` | `TypeOK` | those of the module |
| `AudioCaptureProofs!StoppedIsQuiet` | `QuietOnceStopped` | those of the module |
| `AudioCaptureProofs!RatesAreRight` | `HeardAtItsRate` | those of the module |
| `AudioCaptureProofs!CaptureLeavesNothing` | `NothingLeftOpen` | those of the module |
| `AudioCaptureProofs!SilenceIsTold` | `SilenceIsReported` | those of the module |
| `DesktopHotkeyProofs!TypeCorrect` | `TypeOK` | those of the module |
| `DesktopHotkeyProofs!NoGhostGoesOn` | `NoGhostHotkey` | those of the module |
| `DesktopHotkeyProofs!SettingsKept` | `SettingsInEffect` | those of the module |
| `ApiProxyProofs!TypeCorrect` | `TypeOK` | those of the module |
| `ApiProxyProofs!NoGapsEver` | `NoGaps` | those of the module |
| `ApiProxyProofs!AnswersReach` | `AnswersArrive` | those of the module |
| `BrowserCaptureProofs!TypeCorrect` | `TypeOK` | those of the module |
| `BrowserCaptureProofs!NoAudioFromBefore` | `NoStaleAudio` | those of the module |
| `BrowserCaptureProofs!QuietWhenIdle` | `IdleIsQuiet` | those of the module |

The exceptions of section 4 are part of the properties, so the theorems on the engine speak of
terminations that were not given up, those on the desktop client of sessions that have not gone
astray. `MicrophoneMatches` proves less than the run `desktop` checks: the agreement as
long as no session has gone astray, and not that it comes back once they are over, which rests
with TLC. `CloseLeavesNothing` of a single restart and `OneRestart` are explained under *Service*.

The argument is the same in all: an invariant (`Inv` or `IInv`, a conjunction of named parts)
that the initial states satisfy and every step keeps, one lemma or proof step per action, and
under it one per part that the action can disturb. What each invariant adds to the property,
and why it has to:

*Stream.* `FlagsAgree` alone is not inductive: at a wake it has to be known that
a completed upstream task has an event, and after the client's commit that a `done`
is queued and nothing is being replayed. The invariant joins the types, the
flags, the count of open sessions and what holds in `finally`; each
action is a step, each conjunct a leaf below it. `NoSpeechLost` follows from that invariant
together with the fact that while no session is open nothing is held but the
pre-roll, which is silence.

*Order of the stream's audio.* Four places hold audio besides the finals, and a chunk goes
from one to another behind what is there. The invariant `OrderInv` orders the places: finals,
open session, pre-roll, rollover, what is left to be replayed, and the numbers not yet given;
each rises and lies before the next. That a new chunk may go behind the rollover rests on there
being nothing left to replay, or on the chunk being the first of that: the one new
chunk is above everything, the replayed one below the rest. The order inside a sequence
is stated with two indices, not as a fold, so no induction is needed.

*Refinement.* With `heard`, `segments` and `ended` of `TranscriptStream` read off the session's
state, a step is one of four things: a chunk taken, a final (`complete` or not), the end without
one, or a stutter; there is a lemma for each. A final is a segment of the promise because its
numbers are above those of the earlier ones and, after a cut, are not empty: a session that is
open has heard something. A session that has announced its last final has left the loop. All
three are parts of `OrderInv`.

*Cuts.* The code counts silence as it goes; `CutAtSilence` speaks of the pause at the end of
the whole audio of a segment, a recursive function of it: a chunk that makes it longer than the limit
cuts, one that leaves it shorter does not. The invariant `CutNow` says that the
count is that pause. This needs what one more chunk makes of a pause, a fact by
induction on the length. The library's induction rules take an operator as a parameter,
which the provers cannot instantiate; the module gets along with `WFMin`, which takes a set: a
set of numbers that is not empty has a least element (`LeastNumber`), so one with 0 that
is closed under successor has all (`AllNumbers`), and from this the pauses of a sequence exist
and are unique (`PausesExist`, `PausesUnique`).

*Service.* `OneRestart` says that there is one caller: by finding 3 the properties are
false without it. The invariant says where the one process that may be on the
GPU is: it is current, or the caller is terminating or starting it, and then
nothing else is, but for processes given up: of these it says that they are nobody's any more
(`GivenUpIsLeft`) and that survivors of a SIGKILL do not answer; that the monitor that polls is the
current one's; and that the
settings of the engine, of the current process and of `config` differ only
while the caller is between taking the old and adopting the new. Types and the count of slots
need no assumption on restarts: `active` is the number of clients that are not away, a step
changes one client, and the cardinality changes by one with it.

*Keys.* While the worker reads, nothing is known of the file; what is known is about `dump`.
If nothing has become dirty since the read began, each record read, half or whole, is as it
still is (`ReadAsIs`): then the file it writes is the store, and `CleanIsWritten` comes
back when the write is done. For `AckedIsDurable` the same is said of the records whose calls have
been answered, dirty or not: the dump has their secret and their flag once these have been
read (`AckedIsKept`). It holds because a call is answered only after a flush of its own, under
the flush lock, and nobody but the one call in progress (`admin`) changes a secret or a flag.

*Desktop client.* The calls that wait for the clipboard are a stack, and the invariant first says
what it looks like (`CallsNested`): each `begin` is of a session of its own that has no thread yet, only
the first call can be of a session that is not astray, and there is one `shutdown` at most. `WorkerWaits`
says that a session that is current while another begins or ends has gone astray. `QueueOrder`
is about the GTK queue: nothing in it is of a session that has not connected, and nothing comes
after the callback that ends a session, which is there only when
its thread has ended. `NothingForgotten` is inductive next to these. `Faithful` is what holds as long
as no session has gone astray: all callbacks and every live thread are of the current session
(`Current`), the microphone follows the state, and the clipboard has text of ours only while
something of the user's is put away for it (`Clip`). Each step that can break one of these puts the
session that it does so to into `astray`, and that it does is what the proof of the step shows.

*Microphone.* The invariant says that what PortAudio has open is what the capture has a
handle on, that audio is accepted only between an open and a stop, and which stream an
audio thread that is at work serves: a callback the one that is open; a reader too, until the
stop has given up waiting for it, and then it is not emitting. That part is what makes
`QuietOnceStopped` inductive, and it gives `HeardAtItsRate` as well.

*Hotkeys.* Both properties speak of the GTK thread at rest. In between, a listener that goes on
is the current one or the one being started, and none goes on while a start is taken
back (`NoGhost`); the current one holds the key that is wanted, which is the new one between
the replacement and the saving (`InEffect`). `Places` says which listeners the thread
has in hand at each of its waits.

*Proxy.* `UpInOrder` and `DownInOrder` number what is on its way: read by the peer, in its
queue, in the hand of the pump, and still to be received continue each other. This stays true
only while the pump runs, so the invariant has a part for what is left when it has returned:
the pump of the service returns only when there is nothing more to be read, and then
everything said is with the client or in its queue, before the mark of the end. `Places` says
which pump can have ended how, by where the handler and the peers are.

*Browser.* The invariant has two strengths, for what the code keeps through overlaps and what it
does not. `Starts` holds until two starts overlap, or one begins while audio is being released: one
start at a time, and the audio context follows it and whoever closes it. What is pending was kept for
a connection of the present epoch, while there is no open one, or while the service was closing one, and
is marked so (`Unsent`); a connection that is made is of the epoch of its start or clear (`Made`).
`NoStaleAudio` needs no more. `Handlers` holds until any two handlers overlap: then each one
knows the connection there is, and each connection is the current one, committed or late, which is
`IdleIsQuiet`.

What stays with TLC is liveness: `CommitEnds`, `CutIsAnswered`, `LeavingEnds` of the stream,
`LoadingEnds` and `ExitIsNoticed` of the service, `UsageReachesFile` of the keys,
`FinalizingEnds` of the desktop, `StopReturns` of the microphone, `GivenUpIsReleased` of the
hotkeys, `EndsAreTold` of the proxy and `StopEnds` of the browser. They rest on fairness, which is
about `ENABLED`, and the provers cannot reason about that. Absence of deadlock stays there for
the same reason. `CloseLeavesNothing` is not among the properties of `service`: the theorem
proves it for one restart at a time, and `service_orphan` shows it fail for two.

## 6. Not modelled

- empty audio chunks; a `close()` of the model session that raises; cancellation of
  a handler at server shutdown; the content of texts and the stable/unstable split;
- `manage_engine = false`; the signals to a process group one by one (what they come to is: all ended, some
  left, or raised); the theft of a child's exit status by `waitpid(-1)`;
- that removing the file of an upload may raise in the `finally` block that gives the slot back
  (`main.py:299-301`);
- the settings file after a restart of the whole service; validation of values;
- in `DesktopClient`, the owner of a clipboard that does not answer: the read is then empty, as it is of a
  clipboard with no text; and how often the answer of a call below the innermost may come
  (one at a time);
- in `DesktopClient`, the report of a capture whose start fails after one of its
  candidates has called back and failed; the controller is told of the start anyway;
- the adapter `QwenSdkRealtimeSession` by itself: it runs in the tasks of one stream, and its
  effect on them (what is fed, partials, done, failures) is in `StreamSession`; that its
  `chunk_bytes` may be odd is not;
- in `DesktopClient`, which text is staged: a partial staged before a final that is empty, or comes
  while the focus is elsewhere, is pasted (`desktop.py:420`), and the model does not see it;
- in `DesktopHotkey`, how auto-repeat is told from presses;
- in `ApiProxy`, `forward_api` and `health`, which relay one request and keep nothing;
- in `BrowserCapture`, that the closing of an audio context may itself fail, an unmounted
  page, the REST calls of the settings and keys pages, and the resampling of the worklet;
- the rest of the settings dialog, overlay, notifications, IPC, the listing of audio devices,
  authentication headers, GPU metrics, packaging: presentation, parsing, sampling and build
  automation, which share no state with the parts above.
- a key file that cannot be read at start leaves an empty store, which the next create
  writes over it (`api_keys.py:212`); `ApiKeyStore` has this, no property is about it.

## 7. Plan

1. Done: all modules of section 2, their runs, the proofs of section 5.
2. Done: the proofs of every invariant the runs check and of the refinement.
3. `QwenSession` (`engine.py` 81-194): the remainder at a commit and failures in
   mid-chunk, as an implementation of the model session of `StreamSession`.
