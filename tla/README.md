# audpipe: a TLA+ model

audpipe forwards a microphone: `audpipe server` records a PulseAudio source,
encodes it with Opus and sends it over RTP; `audpipe client` receives, decodes
and feeds it to a virtual microphone (a PulseAudio `module-pipe-source` that
reads a FIFO). This directory holds a TLA+ model of the program, the TLC
configurations that check it on small instances, and TLAPS proofs.

    tlc -config MCPlayback.cfg MCPlayback        # model-check one run
    tlapm ClientProofs.tla                       # check the proofs of a module

## 1. Inventory

Paths are relative to the repository.

| part | state | operations | talks to |
|---|---|---|---|
| Receive hook (`src/client.cpp` `recv_callback`) | `compressed_queue`, `frames_received` | queue a payload, drop the oldest at 256 | called by uvgRTP's receive thread; shares the queue, its mutex and two flags with the microphone thread |
| Write callback (`src/client.cpp:77`) | `playback_queue`, `pcm_decbuf`, decoder | drain PCM, pop, decode, refill | called by the microphone thread |
| Virtual microphone thread (`run_virtual_input`) | `playback`, the FIFO, the write buffer | call the callback, write, give up on EAGAIN, fail | PulseAudio reads the FIFO; flags from main and the signal thread |
| Client lifecycle (`Client::Client`, `request_shutdown`, `~Client`, `main`) | decoder, optional `Rtp`, thread, `should_stop`, `healthy` | construct with retries, watch, stop, destroy | owns what the two threads above use |
| Virtual source (`setup_virtual_input`, `destroy_virtual_input`, `cleanup_stale_virtual_sources`) | FIFO, module index, fd, loaded, error | load module, open FIFO with retries, roll back, unload | the PulseAudio server, shared with other processes |
| Recorder (`record`, `stop_recording`, stream callbacks) | `stream`, `recording` | connect, wait, iterate, hand fragments to the callback | PulseAudio; the Server's data callback |
| Server (`src/server.cpp`) | encoder, optional `Rtp` | `run`, `stop`, `bytes_to_opus` | Recorder, Rtp |
| Rtp (`src/rtp.cpp`) | session, stream, `stopped`, `teardown_mutex` | construct, `write_frames`, `stop` | uvgRTP |
| KeyManager (`src/keys.cpp`) | two key files, key pair in memory | `load_or_create`, `load`, `create` | other processes through the files |
| Config (`src/config.cpp`) | the policy, both sides | read, narrow, validate, default | made once by main, before Client or Server |
| main, signal thread, shutdown flag (`src/main.cpp`, `src/shutdown.cpp`) | the `io_context`, the logger registry, one atomic flag | set up, ask for a device, work, stop the io, join; handle one signal | the flag is polled by every loop |
| Handshake (`include/handshake.hxx`) | none | message layouts only; the functions are empty | |

What is hard in it: three threads that stop each other with flags and no
condition variable; a queue that drops, a PCM queue without a limit and a pipe
that takes parts of a buffer; an object whose members are used by two threads
while it is built and destroyed; files shared by runs that may be killed; a
PulseAudio server shared by several processes; a stop that may arrive while its
target is still starting.

What makes each part correct:

- data path: order without repetition, bounded memory, only the oldest is
  dropped, and a refusal to run once stopped;
- lifecycle: nothing is used after its end, no failure goes unnoticed, Ctrl-C
  ends the process from every place;
- key files: one identity that does not change under a living run, a public key
  never without its private key, a pair that belongs together;
- virtual source: one module and one FIFO per process, both gone afterwards;
- recorder, server, Rtp: a stop that stops, once, without a use after teardown,
  and that every caller may rely on;
- config: what is accepted is what the documents call complete, and is what is
  used;
- main and the signal thread: one signal ends the program, and the thread is
  joined before what it uses is destroyed;
- the whole: what is heard was captured, in the order of the capture unless the
  network changes it.

`PROJECT.json` lists the hazards by line and the property that covers each.

## 2. Modules

| module | models | status |
|---|---|---|
| `Playback` | the data path of the client, audio included | checked; proved in `LinkProofs` |
| `MicFlow` | the control of the hook and of the microphone thread, audio reduced to a count; the abstract specification `Playback` implements | checked and proved through `Playback` and `Client` |
| `Client` | the life of the Client object around `MicFlow` | checked; proved in `ClientProofs` |
| `Endpoint` | what an `Rtp` promises to its owner, abstractly | checked and proved through `RtpEndpoint`, `Client` and `Sender` |
| `RtpEndpoint` | the `Rtp` object: both constructors with the retries, `write_frames`, `stop` and the destructor from any thread | checked; proved in `RtpEndpointProofs` |
| `Sender` | the server: `record`, the data callback, the encoder, `Rtp::write_frames` and `stop` | checked; proved in `SenderProofs` |
| `Relay` | what server and client together promise about audio, abstractly | checked and proved through `Link` |
| `Link` | `Sender`, a network and `Playback` composed | checked; proved in `LinkProofs` |
| `VirtualSource` | set-up, cleanup and teardown of the virtual microphone by several programs on one PulseAudio server | checked; proved in `VirtualSourceProofs` |
| `Microphones` | what the virtual microphones of all programs promise, abstractly | checked and proved through `VirtualSource` |
| `KeyStore` | `load_or_create` by overlapping and killed runs | checked; proved in `KeyStoreProofs` |
| `Config` | the constructor of `Config` | checked; proved in `ConfigProofs` |
| `Program` | `main` and its signal thread from the first line to the end of the process | checked; proved in `ProgramProofs` |
| `MC...` | instances for TLC | |

`Playback` and `MicFlow` have the same threads; `Playback!ImplementsFlow` says
that the first refines the second (`drain` and `pop` are `MicFlow`'s `fill`,
`Len(compressed_queue)` its `queued`). `Client` extends `MicFlow`: every step of
the two threads there is a `MicFlow` step, and main's stores are the steps
`MicFlow` allows to others. So what `Playback` assumes about main is what
`Client` does; this is proved as well (`ClientProofs!FlowUse`: `Client`
implements `MicFlow`). `RtpEndpoint` implements `Endpoint`; `Client` and
`Sender` use their `rtp` member as `Endpoint` allows (`UsesEndpoint` of each):
that is where they meet.
`Link` extends `Playback` and instantiates `Sender`, and implements `Relay`.
`Program` has the work of either as one place.

### Playback

State and code: `compressed_queue`, `playback_queue`, `frames_received`,
`should_stop`, `healthy` are the Client's members; `playback` is the backend's;
`dst` and `offset` are `write_buf` and the locals of the write loop; `decoding`
is the local `compressed_frame`; `hook` and `mic` are program counters; `out` is
a history of what the FIFO accepted. A frame is its rank among the queued ones;
its PCM is a sequence of units `<<frame, i>>`, a unit being any fixed share of
the 3840 bytes.

One action per critical section and per flag test. What is merged, and why this
loses nothing:

- `recv_callback` reads `should_stop` then `healthy`, the loop reads `playback`
  then the shutdown flag, the callback reads two flags. Within each of these
  reads the flags only change in the direction of stopping (`playback` is
  raised only by the same thread), so passing both tests one after the other
  means that both would have passed at the first.
- decoding and inserting the result are one step: between them the thread has
  only locals and nobody else adds to `playback_queue`.
- a refused hook call, an `EINTR` and an empty-handed callback cycle change
  nothing: stuttering.
- `CallbackThrows` stands for the only thing there that can throw in practice,
  the allocation of the insert.

`write` on the FIFO is external: a request of at most `PIPE_BUF` units is taken
whole or not at all, a larger one in any part (in the program both are 4096 and
3840 bytes, so partial writes do not happen on Linux; the loop is written for
them and is checked with them).

### MicFlow and Client

`Client` has main's program counter from the creation of the decoder to the end
of `~Client`, the attempt number, and the life of three members (`rtp`,
`decoder`, `queues`). uvgRTP is external: after `destroy_stream` was called no
new frame is delivered, and it returns when a running hook has returned. When a
thread uses a member after its end the process may crash (`Crash`) or go on (the
ordinary steps).

`context` is the PulseAudio context of the backend, which the first call of
`AudioBackend::instance()` makes (`FirstUse`: for the write callback, or in
`set_error` when there is no decoder). A context that fails while
`wait_for_context_ready` iterates the mainloop ends in an exception
(`NoAudioBackend`). One that failed inside `pa_context_connect` is only logged,
and the state callback is installed after it: the wait never hears of it and
looks at no flag, so no step of main leaves that place (`DeafWait`).

The backoff's 100 ms polls and the 100 ms of the watch loop are abstracted to
"eventually". A failing `Rtp` constructor throws before the hook is installed.

### KeyStore

A key file is the sequence of the keys appended to it, because the files are
opened with `ios::app`; `load` decodes the first. One encoded key is flushed by
one `write`, so a killed run leaves whole keys. The sizes of the two files are
measured one after the other. `Exit` at any place is both the normal end and
`SIGKILL`. `generated` is bounded by `MaxKeys`.

### VirtualSource and Microphones

One program counter per program, from the start of `setup_virtual_input` on the
microphone thread to the end of the backend's destructor, the members of the
backend (`mod_idx`, `fd`, `loaded`, `connected` for the context's state), the
locals of the cleanup (`stale`, and `swept` for how far its loop is), and what
is outside every program: the modules on the server and the FIFOs in `/tmp`.

Each request to PulseAudio is one action, at the moment the server handles it:
what one program lists may change before it unloads it. `Unload` has two
outcomes, done or not, because no caller does more than log the difference
between no operation, a refused and a cancelled one. `left` is a history of the
modules such a failure left behind. PulseAudio itself is external: what it does
is what the code prepares for (refusals, lost connections, a restart).

Modules and FIFOs are named by their program, since both names carry the pid and
a program loads one module in its life; the reuse of a pid is not modelled.
`virtual_input_error` is not kept: it is set on exactly the paths that throw,
and nothing in the program reads it after the thread ended. The loop of
`run_virtual_input` is a single place here; `Playback` has its inside.
`Kill` also stands for `SIGPIPE`: the program does not ignore that signal, so a
write to a FIFO without a reader may end it before `EPIPE` is seen.

`Microphones` is the same service without connections, lists and indices: a
program makes one source, uses it only if it is still there, and goes with
nothing left but what the server failed to unload; a source is taken away by its
owner or by a program that is starting. `VirtualSource` implements it
(`ImplementsMicrophones`).

### Sender

`main` is the one thread of the server: PulseAudio's callbacks run inside
`pa_mainloop_iterate` on it, so the stream's state changes and the data callback
are its own steps. `teardown_mutex` is held by `main` in `push` and by `RtpStop`
for one step, which waits while it is held. A whole `Rtp::stop` is one
step here and many in `RtpEndpoint`; the two meet in `Endpoint`, which the one
respects (`UsesEndpoint`) and the other implements. `sent` is a history of the frames
given to `push_frame`, by their first unit; a frame lost there or on the network
is simply not in it.

The other thread calls `Server::stop` once, as the interface allows
(`include/audio.hxx:48`); today's `main` has no such thread, and with
`Stopper = FALSE` the model has none. An exception of the encoder leaves through
libpulse's C frames: it may arrive in `Server::run` or abort the program.

### Endpoint and RtpEndpoint

`Endpoint` has a phase (building, active, stopping, stopped, failed) and
whether a hook or a push is inside the stream. `RtpEndpoint` has the members of
`Rtp` (`session`, `stream`, `stopped`, `teardown_mutex`), a program counter per
calling thread, the hook on uvgRTP's thread, and the sessions that uvgRTP keeps
whether or not an `Rtp` refers to them. The owner constructs, as the Client with
`max_retries` attempts and a hook, or as the Server with one attempt and none
(`sending`); another thread may call `write_frames` and `stop` from then on;
the owner's destructor calls `stop` as well. `sent_frames` and the two observers
(`is_initialised`, `is_stopped`) have no reader and are left out. uvgRTP is
external: it calls the hook for one frame at a time, and `destroy_stream`
returns when the hook is out.

### Link and Relay

`Relay` says: audio is captured; what is heard at the other end is a growing
sequence of units that were captured; on a network that neither repeats nor
reorders, it is increasing. Losses are allowed everywhere. `Link` puts
`Sender` and `Playback` side by side. `Arrive` is `Playback`'s `RecvQueue`
together with the choice of which sent frame it is (`Deliverable`): any, or on
an `orderly` network a later one than those that arrived. `arrived` remembers
the choice, and `Origin` maps a unit of the client's output back to the unit of
the capture. Each process has its own shutdown flag.

A unit that Opus decoded stands for the unit that was encoded: what the codec
does to the sound is not modelled, only which audio it is. A server or client
that is started again is not in `Link`.

### Config

One action per block of the constructor, in the order of the code, and one per
early return. An integer of the file has 64 bits; `Narrowed` is the conversion
to the field of [net] (a power of two), which comes before the test of
`max_retries`; `ValidPort` comes before the conversion of a port. A host
resolves to any of its addresses or to none; the default local host is kept
unresolved when there is no local table. `ReadPastEnd` is the undefined read
beyond the file's text (`config.cpp:113`): other bytes may follow its last
number. `table` is what was parsed, `file` what was written.

### Program

`main` and `sig` are the two program counters, `registry` is spdlog's global
map, whose logger the handler fetches by name. `Setup` stands for Config and
KeyManager (their own modules), `audio` for the PulseAudio backend, whose wait
may become the deaf one of `Client` (`AudioDeaf`), `build` for the rest of the
Client or the Server, `work` for the client's watch loop or `Server::run`. `Throw` is an exception inside `main`'s try block; the handler
stops the io and joins, as the normal way out does. `exit` over the arguments
does not join. A use of a missing or destroyed logger may crash (`Crash`), one
of a destroyed registry may also seem to work (`Log`).

## 3. Runs

| run | instance | what it shows |
|---|---|---|
| `playback` | queue 2, frame 3 units, buffer 4, pipe 2, 5 frames | `TypeOK`, `QueuesBounded`, `QueueIsNewest`, `InOrder`, `ImplementsFlow` |
| `client` | queue 2, 2 attempts | `TypeOK`, `QueuesOutliveThreads`, `NoSilentDeath`, `CallbackFindsDecoder`, `Terminates`, `UsesEndpoint` |
| `rtp_endpoint` | 3 threads, 3 attempts | `TypeOK`, `OnlyFailuresLeak`, `StopMeansStopped`, `StopReturns`, `ImplementsEndpoint` |
| `sender` | frame 2 units, fragments of 1 to 3, 7 units, another thread that stops | `TypeOK`, `SentInOrder`, `Terminates`, `UsesEndpoint` |
| `sender_stop` | the same, 2 units | violated: `StopEndsRecord` |
| `link` | frame 2, fragments of 1 to 3, 6 units captured; queue 1, buffer 3, pipe 1, 2 frames arriving | `ImplementsRelay` |
| `source` | 2 programs, 1 foreign module | `TypeOK`, `LostOnlyToCleanup`, `ShutdownEnds`, `NextStartCleansUp`, `ImplementsMicrophones` |
| `source_living` | 2 programs | violated: `SparesTheLiving` |
| `keystore` | 3 processes, 3 pairs | `TypeOK`, `PrivateKeyOnDisk`, `OneIdentity`, `LoadFindsKeys`, `PairUnlessDisturbed` |
| `keystore_pair` | 1 process, 2 pairs | violated: `KeyPairMatches` |
| `config` | 2-bit ports and retries, 3-bit times, 8 integers around their bounds | `TypeOK`, `SomeAttempt`, `PortsAsWritten`, `VerdictAsDocumented` |
| `program` | all subcommands | `TypeOK`, `HandlerHasLogger`, `SignalEnds`, `JoinReturns` |

Bounds: with a queue of two and five frames the queue overflows three times and
the reader can empty it in between; frames of three units, of which a decoded
one has one to three, and buffers of four make frames straddle buffers in every
alignment; a pipe of two units takes short writes whole and longer ones in
parts. Two attempts give one failure with a backoff and
one without. Three pairs are one more than the two a mismatch needs, and three
processes let a third append while two hold loaded pairs. Two programs
are one that cleans up and one whose module it takes; the safety properties are
proved for any number. Seven units give three frames with a short and a long
fragment between them. Three threads let one stop while a second pushes and a
third waits behind it; three attempts leave two failed sessions behind. Two
arriving frames out of three sent ones can be lost, repeated and swapped, and
overflow a queue of one. The integers of `config` are both neighbours of each
bound, a value that narrows to 0, one that narrows to an allowed value, and a
negative one; the files are every [net] with good sides and every pair of sides
without [net].

Deadlock is checked in `keystore`. The other systems end (the threads have ended
and nothing arrives any more, the configuration is read, the process is gone),
so there it is not. `keystore` uses symmetry in the processes, which is sound
for its invariants; no other run does.

`keystore_pair` is a disagreement between code and documentation: "Loads or
creates a ed25519 keypair." (`include/keys.hxx:69`). A run killed between the
two writes of `create` leaves a private key without its public key. The next run
finds the public file empty, creates a second pair and appends it; every later
run loads the first private key with the second public key.

The other two violated runs:

- `source_living`: the cleanup is meant for "stale audpipe module-pipe-source
  instances from previous runs" (`pulseaudio_backend.hxx:79`), but it unloads
  every module with the prefix; a second client takes the first one's
  microphone away while it is running.
- `sender_stop`: `record` "Blocks until stop_recording() is called from another
  thread or the stream fails" (`audio.hxx:49`); a call during the connection is
  overwritten by `recording = true`.

Other places where the code does something else than its documents say. The
models contain them, and a property that holds everywhere else names them as its
exceptions:

- "Key `net.max_retries` should be at least 1." (`config.cpp:177`):
  `max_retries = -1` is accepted as 65535 and 65537 as 1, and 65536 is refused,
  because the integer is narrowed before it is compared with 0
  (`config.cpp:175`). `VerdictAsDocumented` excepts it as `Wrapped`;
  `SomeAttempt` is what remains true of it.
- "If not present, defaults are already set" (`config.cpp:248`) and "Only your
  remote details need to be specified if you don't mind using local defaults"
  (`audpipe.toml:5`): a `local` table without a port is refused; the default
  port is kept only without the whole table. `VerdictAsDocumented` excepts it as
  `Portless`.
- "Block the mainloop until the context reaches READY or FAILED state."
  (`pulseaudio_backend.cpp:71`): when `pa_context_connect` fails at once, the
  context is FAILED before the callback is installed
  (`pulseaudio_backend.cpp:39-46`, `:75`) and the wait goes on for ever.
  `Terminates` of `Client` excepts it as `DeafWait`, `SignalEnds` of `Program`
  as the place `deaf`.

Observed as well, without a property about it:

- The file's text is read beyond its end (`config.cpp:113`).
- `destroy_virtual_input` only logs a failed unload and forgets the module,
  where `pulseaudio_backend.hxx:31` says it throws (`left` in `VirtualSource`).
- `--config` (`main.cpp:27`) is never looked at.

### Fairness

In `Client`, every thread that can step eventually does
(`WF(MainStep)`, `WF(MicStep)`): they are ordinary threads that poll, none holds
the mutex while it waits. For the backend's context this assumes that libpulse
gives up a connection that is not answered, which it does after a time limit of
its own; nothing is assumed of the deaf wait, and `Terminates` excepts it. A hook that was entered returns (`WF(HookReturns)`).
Frames need not arrive, signals need not come. The setup of the microphone is
not fair: opening the FIFO waits for PulseAudio without limit. It is fair once
the shutdown was requested, which its loop polls; this assumes that a PulseAudio
operation that was started completes or fails.

`Terminates` then holds although `run_virtual_input` may overwrite an earlier
stop (`playback = true` at `pulseaudio_backend.cpp:411`), because its loop also
polls the shutdown flag, and although the callback's loop does not look at
`should_stop`, because the hook does and the queue runs dry.

In `VirtualSource` a program's own steps are fair, because PulseAudio answers a
request or drops the connection; the wait for a reader of the FIFO is fair only
once the shutdown was requested, which its loop polls. `ShutdownEnds` then holds
even for a program whose module another one unloaded under it.

In `Sender` the recording thread is fair: a connecting stream becomes ready or
fails, and a recording one wakes `pa_mainloop_iterate` from time to time, since
it asked for timing updates (`PA_STREAM_AUTO_TIMING_UPDATE`). Without these two
assumptions a shutdown has no effect there, as neither wait looks at the flag.

In `RtpEndpoint` a hook, a push and the steps of a stop go on, and a thread that
waits in `stop` for the mutex gets it (strong fairness of `StopLock`):
`write_frames` holds it for one push and comes back after 20 ms of audio, so it
is free again and again. Nothing has to be pushed or stopped.

In `Program` main goes on (unless it reads a line or is in the deaf wait) and so
does the signal thread; a connection to PulseAudio under way comes to an end and
the list of inputs is answered or the connection lost. That the work ends once
the shutdown was requested is assumed there, and is `Client!Terminates` and
`Sender!Terminates`. Nobody has to type a line, so
`SignalEnds` excepts that wait as well: `getline` restarts after the handler on another
thread, and the flag is not looked at before it returns.

### What the client run leaves open

`CallbackFindsDecoder` says that no *new* callback can reach a decoder that
`~Client` destroyed. The one already past its check can: `~Client` destroys the
decoder before it joins the thread. `QueuesOutliveThreads` excepts the
constructor's unwinding after a failed thread creation: the queues are destroyed
before the `Rtp` whose hook pushes to them. `Terminates` excepts `DeafWait`: a
client that finds no PulseAudio server at once may stay in the backend's
constructor, deaf to Ctrl-C. All three are reachable in the model and listed as
hazards.

## 4. Proofs

TLAPS proves the following for all values of the constants that satisfy the
named assumptions (one `...Assumption` per module, which says which constants
are numbers and which sets are disjoint; `ConfigAssumption` also that the
defaults are allowed values).

| module | theorem | property |
|---|---|---|
| `LinkProofs` | `TypeCorrect`, `BoundedMemory`, `OverflowDropsOldest`, `StreamInOrder`, `FlowRefinement`, `EndToEnd` | `TypeOK`, `QueuesBounded`, `QueueIsNewest`, `InOrder`, `ImplementsFlow`, `ImplementsRelay` |
| `KeyStoreProofs` | `TypeCorrect`, `NoOrphanPublicKey`, `IdentityIsStable`, `LoadIsSafe`, `UndisturbedPairs` | `TypeOK`, `PrivateKeyOnDisk`, `OneIdentity`, `LoadFindsKeys`, `PairUnlessDisturbed` |
| | `IdentityOutlivesRuns` | what a run has loaded is what every later run loads |
| `VirtualSourceProofs` | `TypeCorrect`, `OnlyCleanupSteals`, `CrashIsCleanedUp`, `Refinement` | `TypeOK`, `LostOnlyToCleanup`, `NextStartCleansUp`, `ImplementsMicrophones` |
| | `NoLeak` | `NothingLeaked`: a program that ends by itself leaves no FIFO, and its module only if PulseAudio failed |
| `SenderProofs` | `TypeCorrect`, `OrderOfSending`, `EndpointUse` | `TypeOK`, `SentInOrder`, `UsesEndpoint` |
| | `LivePush` | `PushesAlive`: no push into a destroyed stream |
| `ClientProofs` | `TypeCorrect`, `QueuesSafe`, `MicNeverDiesAlone`, `DecoderGuarded`, `EndpointUse` | `TypeOK`, `QueuesOutliveThreads`, `NoSilentDeath`, `CallbackFindsDecoder`, `UsesEndpoint` |
| | `FlowUse` | `Client` implements `MicFlow` |
| | `JoinIsFinite` | the safety part of `Terminates` at the join of `~Client` |
| `RtpEndpointProofs` | `TypeCorrect`, `NoSessionLeaks`, `StopIsFinal`, `Refinement` | `TypeOK`, `OnlyFailuresLeak`, `StopMeansStopped`, `ImplementsEndpoint` |
| | `StopIsFinite` | the safety part of `StopReturns` |
| `ConfigProofs` | `TypeCorrect`, `AtLeastOneAttempt`, `PortsKept`, `DocumentedVerdicts` | `TypeOK`, `SomeAttempt`, `PortsAsWritten`, `VerdictAsDocumented` |
| `ProgramProofs` | `TypeCorrect`, `LoggerForTheHandler` | `TypeOK`, `HandlerHasLogger` |
| | `SignalsArrive` | while main works, a signal was passed on or is about to be |
| | `JoinIsFinite` | the safety part of `JoinReturns` |

The rows without a module name state formulas that no run checks.

The arguments:

- `LinkProofs`, the client's half. Types and bounds are not inductive without
  `Phase`: the callback decodes only after it emptied `playback_queue` without filling `dst`
  (so one decoded frame is all the PCM queue ever holds), and `offset` stays
  below `Len(dst)` in the write loop. `OverflowDropsOldest` adds the arithmetic
  of the overflow rule. `StreamInOrder` is about `Stream`, the bytes written
  followed by those that wait: draining and writing leave it unchanged
  (`DrainKeepsStream`, `WriteKeepsStream`), giving up a buffer cuts out its
  middle (`DropMiddle`), and decoding appends a frame. That this frame is newer
  is `OrderInv`: all of `Stream` is older than the frame being decoded, which is
  older than the compressed queue; it needs `QueueIsNewest`, so that the head
  of the queue is the number after the last one taken out. `FlowRefinement` maps
  each action to one of `MicFlow` or to a stutter; an overflowing queue keeps
  its length, and a buffer that is written in parts is one write.
- `KeyStoreProofs`. The private key is written first and files only grow, so
  what a run saw non-empty stays non-empty and its first key stays the first:
  this carries the three unconditional properties. For pairs, `Calm` says what
  the files look like as long as no create was disturbed. For
  `IdentityOutlivesRuns`, `Settled`: once an identity could be loaded it heads
  both files, and appending keeps it there.
- `VirtualSourceProofs`. `Owned` says who answers for a module on the server,
  at each place of its program; `Memory` that the program still knows it;
  `Swept` that a swept module does not come back, because each program loads
  one module and was past that when it was listed. `CrashIsCleanedUp` follows a
  pair of programs (`Cleaning`): the killed one's module stays off the server,
  is on the other's list, or the other gets no source while it is connected.
  `Refinement` maps places to phases (`Phase`); a program that ends without
  unloading anything has nothing to unload, or the server failed (`Owned`).
- `SenderProofs`. `Fresh`: what the data callback looks at was captured after
  everything sent. `Teardown`: the flag, the count and the place of the thread
  that holds the mutex agree; hence `StopRefines`, that every stop is a stop of
  `Endpoint` with nobody inside, or nothing.
- `ClientProofs`. `MicLives` says where the microphone thread can be at each
  place of main, `Members` which members live there, `Causes` that a flag was
  set whenever a thread left. `EndpointUse` adds that each step of main, of the
  hook and of the unwinding is a step of `Endpoint` or none. `FlowUse` needs
  `Spawned`: before the thread exists nobody raises a flag it could see, and
  afterwards nobody else makes the client unhealthy. For `JoinIsFinite`, the
  thread that main joins gets no more frames and finds the flag its place looks
  at (`JoinsTheStopped`), even if it set `playback` again after
  `request_shutdown` had cleared it; `MicToGo` counts its steps to the end.
- `RtpEndpointProofs`. `Exclusive` ties the mutex to the place of its holder,
  `Teardown` the three members to the place of the thread that tears down: this
  is why a second `stop`, which returns at once, returns only after the first.
  With them `NoCircularWait` holds, and `ToGo` counts the holder's steps to the
  release; the frame it waits for is the last.
- `ConfigProofs`. `Places` says which settings have passed which check at each
  place. A remainder is below its width (`Fits`), and a port in range is its
  own remainder (`PortKept`). `DocumentedVerdicts` adds what has been judged at
  each place (`Judged`), that a `max_retries` which fits its field is 0 after
  the conversion only if it was 0 before (`NetJudged`), and that the range check
  is membership in the ports (`PortJudged`).
- `LinkProofs`, both ends. `EndToEnd` is compositional: in `Link` each end
  behaves as its own module's `Spec` (`ServerBehaves`, `ClientBehaves`), so the invariants proved of
  `Sender` and of `Playback` hold. `Arrivals` adds that `arrived` has one sent
  frame per number of the client's and that an orderly network keeps their
  order. `Origin` is then increasing over the client's stream because the
  frames do not overlap in the capture (`SentInOrder`), and a step of either
  end is `Capture`, `Hear` or a stutter.
- `ProgramProofs`. `LoggerLives` says at which places of main the registry has
  the logger, `ThreadLives` that main leaves the signal thread behind only when
  it had nothing to work on, `IoStopped` who stopped the io. So main joins a
  thread that waits for nobody, and `ToGo` counts its steps.

Only model-checked: liveness (`Terminates` of `Client` and of `Sender`,
`ShutdownEnds`, `StopReturns`, `SignalEnds`, `JoinReturns`), which the prover
cannot do. For the waits of one thread for another (`~Client`'s join, main's
join, the mutex of `Rtp`) the part that is safety is proved: whoever is waited
for does not wait in turn for the waiting thread, and a measure over the naturals
decreases with each of its steps. What remains to TLC is that these steps are
taken, which is fairness, and the liveness of the loops that wait for a signal
or for PulseAudio.

## 5. Plan

In `Link`, a server that stops and starts again while the client goes on, with
the order of what is heard proved for each session.

Not modelled: trusted peers (JSON and hex decoding, no caller), the handshake
(no behaviour yet), `get_user_config_path`, `is_initialised` and `is_stopped`
(no caller), the `loaded` flag of KeyManager (never set, and `load_or_create` has
one caller), the listing of devices (no state), the build files, logging but for
the life of the logger.
