# A verification of 1st CLaaS

TLA+ models of the parts of 1st CLaaS whose correctness depends on time,
concurrency and failure, their model checking with TLC, and proofs about them
checked by TLAPS. `PROJECT.json` lists the runs, the lines of source that each
definition models, the hazards and the theorems.

1st CLaaS lets a web page use a kernel on an FPGA: a page talks to a web server
over a WebSocket, the web server to a host application over a UNIX socket, and
the host application to the kernel, simulated or in hardware. The FPGA may be
an AWS F1 instance that is paid for by the hour, which the web server starts
for its users and which a "time bomb" stops when nobody uses it any more.

## 1. The system: inventory

| Part | State | Operations | What it depends on |
|---|---|---|---|
| EC2 time bomb `framework/aws/ec2_time_bomb` | the time bomb file (a pid and a timestamp), a background process per bomb, its waits and `aws` calls | `control`, `own`, `reset`, `detonate`, `done`, `defuse`, `info`; the process's poll, stop and watch; signals | EC2, inotify, the users of the script |
| F1 management, page `framework/client/js/fpgaServer.js` 225-402 | `f1_state`, chains of timeouts | submit, stop, timeouts, answers, polling the instance | web server (HTTP) |
| F1 management, web server `framework/webserver/server.py` 155-370, 428-485 | what its only thread is doing, requests in queue, signal flags | associate, reset, start, clean exit | the time bomb script, `aws`, pages |
| WebSocket messages `server.py` 94-125, 395-425, 537-590 | handlers, connections | message, close, ping | page, host |
| WebSocket connection `fpgaServer.js` 41-220 | socket, reconnect count and time, keep-alive chains | connect, keep alive, reconnect, send | web server |
| Host socket `framework/webserver/server_api.py`, `framework/host/server_main.c` | byte stream, whose turn it is | commands, data, images | kernel |
| Kernels' drivers `framework/host/sim_kernel.c`, `hw_kernel.c` | counters of chunks sent and received, buffers, tracing | write, start, read, reset, trace | kernel |
| FPGA kernels `apps/*/fpga/src` | pipelines and flow control | accept a chunk, produce a chunk | driver |
| Mandelbrot page `apps/mandelbrot/client/js/demo.js` | controls, shared settings, map, viewer, host | settings changed, open, destroy, cast, spot, resize, F1 state | viewers, map |
| Mandelbrot viewer `FullImageMandelbrotViewer.js`, `MandelbrotView.js` | view wanted, view requested, recorded frames, playback | update, zoom, pan, record, play, burn, observe, destroy | Mandelbrot web server |
| Mandelbrot web server `apps/mandelbrot/webserver` | cast directories, videos | image, burn, cast, observe | host |
| Manycore, WARP-V and test bench pages | program, output, trace flag | convert, run, send, trace | web server |
| Launch `framework/build/launch` | pids, done flag | launch, tear down, upgrade | host, web server |

How they interact: pages call the web server by HTTP and WebSocket; the web
server is single threaded (`server.py:42`) and blocks in every call it makes,
to the host, to the time bomb script and to `aws`; the time bomb's processes
share nothing but the file; the host serves one command at a time.

What makes each of them correct, and hard:

- *Time bomb.* The instance is stopped soon enough after the last reset,
  whatever is killed, fails or is lost, and is never stopped under a user who
  resets in time. Hard: a decision to stop takes effect seconds later; an event
  on the file is seen only by a wait that has begun; two processes and any
  number of commands act on one file; a killed process's call goes on.
- *F1 management.* A user who goes on resetting keeps the instance once the server is
  free again, however long it was blocked; every start request is answered; nothing
  is started once the bomb is gone; nobody's instance stays on. Hard: queues
  behind a blocked server, duplicated chains of timeouts, signals and crashes
  in the middle of a start, commands that fail after having had their effect.
- *WebSocket connection.* Each request gets its answer or the user learns of
  the closed connection; keep-alive chains and reconnections do not pile up.
- *Host protocol.* Both sides agree on whose turn it is and on the size of what
  comes; neither waits for what the other will never send.
- *Kernel drivers and kernels.* No chunk is lost, duplicated or reordered by the
  handshakes, and a run ends when the kernel has produced what was asked for.
- *Mandelbrot page and viewers.* Settings, map and viewer follow the controls;
  the last view wanted is eventually shown; nothing of a destroyed viewer is.
  Hard: one settings object is shared by everything and changes while images are
  on their way; viewers are destroyed with images, timeouts and polls pending.
- *Playback.* One callback drives a playback however often it is stopped and
  started; frames are burned once, in order; recording and playing end. Hard:
  images and timeouts of stopped playbacks that still arrive.
- *Conversion.* Each line becomes the instruction it spells at its own address,
  though other lines fail. Hard: 32-bit signed shifts, fields that do not fit.
- *Observers.* An observer sees whole images.
- *Launch.* No process is left behind by a kill or an upgrade at any moment.

Every part, modelled or not, is a component of `PROJECT.json` with the reason;
the hazards, each at its line, are listed there with the properties that would
catch it going wrong, or a note.

## 2. Plan

In order of importance.

| | Modules | State |
|---|---|---|
| 1 | `DeadMansSwitch`, `TimeBomb`: the time bomb implements the abstract switch | checked, proved (`TimeBombProofs`) |
| 2 | `F1System`: pages, web server and time bomb together | checked, proved (`F1SystemProofs`, `F1KeptAliveProofs`) |
| 3 | `Connection`: WebSocket, reconnection, the server's dispatch, the pages that run programs and trace | checked, proved (`ConnectionProofs`) |
| 4 | `MandelbrotView`, `Demo`: views, the page of the Mandelbrot explorer and its viewers | checked, proved (`DemoProofs`) |
| 5 | `Playback`: motion, recording, playing, burning, observing | checked, proved (`PlaybackProofs`) |
| 6 | `KernelCalls`, `SimKernel`: the driver of the simulated kernel against kernels' flow control, as its caller sees it | checked, proved (`SimKernelProofs`) |
| 7 | `Assembler`: conversion of assembled programs | checked, proved (`AssemblerProofs`) |
| 8 | Host socket, Mandelbrot web server, launch | not modelled, section 6 |

`TimeBomb` is instantiated against `DeadMansSwitch`, `SimKernel` against `KernelCalls`;
`F1System` extends `TimeBomb`; `Demo` extends `MandelbrotView`. The other modules meet in the web
server, whose part in each is small: it answers or fails image requests (`Demo`,
`Playback`) and serves messages in order (`Connection`).

## 3. The modules

### DeadMansSwitch

What the script promises, without processes, files or calls. Four variables:
the instance, the age of the last reset, whether anybody watches, and for how
long a watched instance has been up unattended. An instance is cut off only
when the switch has run out or a reset was so recent that it raced with the
decision (`Race`); time does not pass beyond `Bound` while a watched instance is
up unattended. A user may also throw the switch (`Throw`), which is what `detonate`
is documented to do; the script does not implement that.

### TimeBomb

The script. State and code:

| Variable | Code |
|---|---|
| `file`, `age` | the time bomb file's pid and the age of its timestamp, capped at `ResetTime`, beyond which nothing depends on it |
| `ctl`, `mode` | the shell of a `control` or `own` command, by the pid of the process it starts |
| `pc` | where the background process is: `create` (446-449), `poll` (457), `call` (466), `retry` (484), `sleep` (487), `watch` (510), and how it ended |
| `timer` | what is left of its `inotifywait -t`, its `sleep` or its `aws` call |
| `call` | its `stop-instances` call: sent, or taken by EC2 and not yet answered; it survives the process |
| `rare` | `rare_cnt` |
| `cmdOp`, `cmdAt`, `cmdPid`, `cmdCnt` | a `done` or `defuse` in progress, with the pid it read and its `cnt` |
| `inst` | the instance, `pending` counted as running |
| `quiet` | history: how long the guarded instance has been running since the last start, reset, failed stop, or since it became guarded |

Each command and each stretch of the process between two waits is one action;
`Reset` and `Detonate` are `Touch` with the stamp that each gives the file, and
`Detonating` says whether anybody detonates.
`Ec2Stop`, `Ec2Stopped`, `OrphanEnds` and `Start` are EC2 and its users. Time is
discrete. A stretch of code between two waits takes no time: `Tick` is disabled
while a wait has run out and its process has not moved on. The one duration the
code does not fix is that of an `aws` call, at most `AwsTime`.

Abstractions: the creation of the file and the writing of the pid into it are
one step; pids are not reused while a command uses them; `done` and `defuse` do
not overlap one another (all other commands overlap everything). The wait of a
`control` command is not timed. What the checks before line 428 decide is only
whether a process is started at all. Signals other than to the background
process are those of its shell, which has nothing left to do.

The facts about bash that the model relies on, each tried on its own: traps are
reset in the background subshell, so SIGTERM and SIGHUP kill the process and
leave the file, and SIGINT is ignored by it; `reset_time` is unset in the
commands before line 322, so `detonate` computes `sec=1`; a fractional `-mtime`
means an age strictly less.

### F1System

Extends `TimeBomb` with the pages (`f1_state`, `chain`, `answer`), the web
server (`queue`, `srv`, `srvFor`, `srvTimer`, `signaled`), and uses the time
bomb's actions as they are: the server's `reset`, `detonate`, `control` and
`done` are `Reset`, `Detonate`, `Control`/`CreateFile` and `CmdBegin("done")`. A
server that sleeps or runs a command serves nobody, and requests wait in
`queue`. Resets queued one behind the other are merged, since several in a row do
what one does. `srv` walks through the start handler (`sleep`; `starting`, the call of start-instances;
`booting`, the wait for running; `describing`, the call that asks for the address), in all of which the
server is `Busy`, or through `cleanExit` (done, waiting for the instance to stop, one last round of
the event loop), and may crash anywhere. `chain` holds what is left of each
timeout of `scheduleEC2TimeBombReset`; `ec2_ping_active` has no effect on them
(line 257 clears it before line 274 tests it) and is left out, so a page can
have several chains, up to `MaxChains` of all pages together. `rested` is history: for how
long the server has been free since it last served a start, up to what `KeptAlive` needs.
A start that goes wrong detonates, so the constant `Detonating` is assumed here.

Abstractions: the network takes no time; a closed page does not come back (a
reload is another page); a page's wait for the instance's own server is not
timed; a page has the `ec2-instance-status` element that holds its `f1_state`;
of a server that crashes while EC2 is being asked to start the instance,
the request takes effect before the crash or not at all. A signal before the
server has begun to serve, which ends it at once, is not modelled.

### MandelbrotView

Settings and views as values, with what decides whether an image is asked for:
`equals`, `copy` and the URL of an image. `Look` stands for the settings that
are copied, compared and put into the URL alike (colours, edges, depth, and
so on); those that are treated differently (renderer, theme, time, stereo
and the separations, spot, cast tag) are fields of their own. The fields of a
position are one value.

### Demo

The page `demo.js` and the part of `FullImageMandelbrotViewer.js` that asks for
images.

| Variable | Code |
|---|---|
| `gui`, `cast_tag` | the inputs of the page; the tag captured when casting began |
| `settings` | the `MandelbrotSettings` object that page and viewers share |
| `viewers`, `viewer` | every viewer opened, with position, width, `vr`, host, the view `requested`, and `phase`: an image on its way (`load`), the timeout of an unchanged view (`wait`), after an image that failed, or ended; which is open |
| `map` | the URL of the tiles of the map, when that is shown |
| `dom` | what the image of each eye shows |
| `container`, `eye_width`, `resizing` | widths of `sizeViewer`, and a `ResizeObserver` with a change to report |
| `spots` | `spot_depth` in each chain of timeouts of `sendSpot` |
| `server` | `f1_state` and `restore_host` of the page's `mandelbrotServer` |
| `clock` | for each viewer the second since its `ref_time`, which the time based settings of the holiday theme show |

Each listener of the page is one action with all it calls (`settingsChanged`,
`destroyViewer`, `openMap`, `openFullViewer`, `newView`); so are `Load`, `Fail` and
`Poll`, the ends of an image request and of the timeout. The viewer requests
again in the same action (`Updated`).

Abstractions: sizes are widths (heights follow the same rules); zooming, dragging
and the wheel move to any position (`MoveTo`); Leaflet's own map is only its URL;
`F1State` lets the instance come and go in the order of `F1System`. The renderers set a limit to
the container's width, by which the `ResizeObserver` may come to report a change.

### Playback

The rest of the viewer: drags, the chains of timeouts that apply velocity and
acceleration, recording, and the three kinds of playback, with the buttons of
`demo.js`. A viewer's record holds `dragging`, the timeouts of `endDrag` and of the
motion, `recording`, `frame_timeout_cnt`, the number of `frames`, `playback`,
`playback_id`, `playback_frame`, and `calls`: the images and timeouts on
their way, each with the `playback_id` that its closure captured and the frame it was
requested for. A `TypeError` (`crashed`) ends a playback that was started with nothing recorded,
or an observation. Frame contents, the frame rate (any later frame may be due
when playing) and what the images show are left out.

### Connection

A page's WebSocket (`fpgaServer.js` 41-220), the server's message handlers, and
the pages that use them: run and trace buttons of WARP-V and manycore (whose
files differ in a comment only) and the test bench. `ws`, `socket`, `handler`,
`chains`, `reconnect` and `told` are the connection; `inbox` what the server has
not yet served, oldest first; `down` the answers on their way; `kernel` its
instruction memory (which program wrote each address) and whether it traces;
`page` what the page sent, knows and shows. What `verilogToChunks` makes of a program is one of
`Converted`: all its lines, or, with an error shown, any part of them or none, which the page
sends, reads back and runs all the same. A write changes only the addresses it has
lines for, so the memory may hold parts of several programs. The answer to a write of
nothing is empty, and the page's handler fails on it. A socket that ends loses its answers
and what has not reached the server. Messages that have reached it are served before
those of a later socket, as the single-threaded server reads them in order.

Abstractions: one page and one kernel (two pages share the kernel without
arbitration, which no code promises anything about); a program is a number, and its lines that
the memory has no address for are left out; the result of a run is what the memory held; the
browser's socket reports an error and a close together; the time between
reconnections counts as shorter or longer than ten seconds.

### KernelCalls

What the caller of `sim_kernel.c` may rely on, without clock and pins: `write_kernel_data`,
`start_kernel` and `read_kernel_data` are one step each. A run that returns has given all
its chunks and taken exactly the results asked for, those of the oldest chunks not
yet answered; no more chunks stay unanswered than the kernel can keep (one for vadd, its depth for
a pipeline). A run that would have to take results of chunks never sent, or leave
more behind, does not return: it ends the host. `SimKernel!Calls` is the refinement mapping:
while the loop runs the caller sees the state before it.

### SimKernel

`sim_kernel.c`: the driver that clocks a Verilator model. `at` is where the driver
is; `Rise` is the first tick of the loop, with the rising edge at which the kernel
moves; `Drive` is everything after it: `out_ready`, the evaluation, the result
taken, the chunk offered and counted, the second tick and the loop's condition.
Both may leave the process by one of `tick`'s limits. The pins keep their values
between runs, as in the code. Chunks are numbered, and a result is the number of
the chunk it came from.

The kernels are vadd as it is (combinational: `in_ready` is `out_ready`, `out_avail` is
`in_avail`), and a back-pressured pipeline of any depth that stalls as it likes,
which is what WARP-V's flow (`bp_pipeline` with a `$stalled` stage, wrapped by
`tlv_wrapper`) looks like from outside. A kernel that makes many results of one chunk, like
Mandelbrot's, is not modelled. The calls come in the order
of `HostApp::processTraffic`, with tracing switched between runs; at this commit
that function lies inside a comment (opened in line 103 of `server_main.c`, closed
in line 443). The chunk sizes are whole, and the trace file is left out.

### Assembler

`verilogToChunks` as a loop over lines: the begin and end marks, comments, the
constants of a line from the right (`Pop`), `1 << n` in signed arithmetic of `Width`
bits with the exception the code makes for the highest bit, and what happens to
lines that fail. A digit is its value; a constant that does not parse is `bad`; one
that is the empty string ends its line, as `while (const_str = ...)` does. Constants
of an unknown base, which yield `NaN`, are not among the inputs.

## 4. What is checked

Runs that pass. Deadlock is checked where time or the browser always goes on (the
runs of the time bomb, the system, and the assembly, which stutters when done); in the runs of
viewer, playback, connection and simulated kernel it is not, because the user
may stop.

| Run | Shows |
|---|---|
| `bomb` | two processes that race for the file and take over from each other, with every command but `detonate`, kill, lost or failed call: types; the guarded instance stopped within `Bound` (`StoppedInTime`); no stop of a live timer except under a reset younger than a call (`StopJustified`); the refinement (`ImplementsSwitch`); an expired bomb turns the instance off however often it is started (`KeptOff`); a process whose file is removed leaves (`DoneExits`) |
| `system` | two pages that start, stop and restart, with two chains of timeouts of one page or one of each, starts that take longer than a ping or than the bomb's reset time, and failed ones, which detonate: once the server has been free for longer than a call, the instance is not cut off under a page that uses it (`KeptAlive`); nothing is started once the bomb was removed (`StartedUnderBomb`) |
| `system_live` | every start request is answered (`PendingResolves`); the instance goes off when nobody wants it or the server is gone, also with two chains of one page (`NobodyLeft`) |
| `viewer` | any three things a user does, interleaved with images that come late or fail, polls, spots, destroyed viewers and an F1 instance that comes and goes: settings, map and viewer stay in step with the controls (`InStep`), a viewer that waits shows what it compares with, to both eyes (`WaitingShowsRequested`), a spot is always led by a chain (`SpotIsLed`), nothing of a destroyed viewer is drawn (`OnlyOpenDraws`), and in the end the desired image is shown (`Settles`) and the spot is gone (`SpotEnds`) |
| `playback` | one callback drives a playback (`OneDriver`), the buttons tell it (`ButtonsTell`), recordings are bounded (`FramesBounded`), only the playback that runs requests images, and a burn each frame once and in order (`BurnsInOrder`), playing and motion end (`PlaybackEnds`, `MotionEnds`) |
| `connection` | a closed connection reconnects or the page is told, never both (`NeverForgotten`, `Reconnects`), an open one is pinged (`KeptAlive`), every line that a run executes of a program converted without an error is of the program sent with it (`RunsWhatWasSent`), tracing is what the page says (`TracingInStep`), the answers to such a program sent last are the ones that stay (`LastIsShown`) |
| `sim_kernel` | across runs that ask for more or fewer results than they send, a run is one step to its caller that takes the results of the oldest chunks unanswered, or does not return (`ImplementsCalls`); vadd keeps its pace (`VaddKeepsPace`); every run returns or ends the host (`StartEnds`) |
| `assembly` | the fields of every legal line are in their bits (`ExactWords`), each line at its address whatever lines fail (`InPlace`), and every legal program is converted (`Converts`) |

Each of their properties has a mutant in `PROJECT.json`: a plausible bug in a
definition (kept beside it) that makes TLC find the property violated.

`Bound` is `2 * AwsTime + PollFreq + max(WatchTimeout, ResetTime - 1)`. It is
tight: with one less TLC finds a violation. With the script's own parameters and
the default reset time (watch timeout 600, reset time 120) it is over ten
minutes, because a reset made during an `aws` call is missed by the watch that
follows.

The system's `KeptAlive` exempts what the code does not rule out: a server that starts the instance for
somebody serves no resets meanwhile (`server.py:229-238`: a second, and three `aws` commands of which
`wait` alone may go on for ten minutes, against a reset time of 120 seconds), so the bomb may run
out under every page, and the call that it then makes may still be on its way when the server is free
again. Hence no page can count on the instance before the server has been free for `AwsTime`. From then
on it can, if the reset time exceeds the ping period by more than 1 (the code has 120 seconds
and a minute). `system` has starts that last longer than the reset time. The page that
the instance is being started for is not safe either: `system_cut` shows the bomb stopping
it, a second being shorter than an `aws` call, against the comment of `server.py:228`.

Runs that find the text of the repository and the code at odds (quoted in the
findings of `PROJECT.json`):

| Run | Finding |
|---|---|
| `bomb_detonate` | after `detonate` the timer still runs, `reset_time` being unset where 1 is added to it (247), against lines 52 and 246 and the server, which detonates to "tear it down, now" (`server.py:266-269`) |
| `system_cut` | the second before the start of the instance does not keep the bomb from stopping it (`server.py:229`) |
| `viewer_stops` | one image that fails ends a viewer's "non-stop" requests (`FullImageMandelbrotViewer.js:473`) |
| `connection_handler` | after a reconnection nobody hears the answers (`warpv.js:63`) |

Met while modelling, without a run of their own.

- *Time bomb.* A process that has not yet looked at its file sleeps until the file exists
  (446-449); when `done` removes it before that, the process waits for ever and `done` fails
  after ten seconds, against lines 115-116; `own` does what `control` does, `cmd_rg` is never
  set (314); a touch during an `aws` call is missed, and the instance runs on for
  the watch timeout (510); `defuse` kills the process and leaves its file (lines
  117-118 and 390 say that it is removed), so the next `control` has to find the
  process dead.
- *F1 management.* `ec2_ping_active` keeps no second chain of timeouts from
  starting (`fpgaServer.js:257`); a page without the `ec2-instance-status` element
  has no `f1_state` and never resets the bomb.
- *Connection.* Chains of keep-alive pings accumulate with reconnections
  (`fpgaServer.js:116`); the run button stays disabled after an exception in `success`
  (`warpv.js:116-118`); a program that does not convert is run all the same, as far as it did and
  with what earlier ones left in the memory (116-122).
- *Mandelbrot page.* Un-tiling while in stereo renders with an eye separation of 0
  until the next change (`demo.js:236`, `406`); the state of the VR button
  outlives the viewer it was set on; a change of host alone requests no new image.
- *Flights.* A button pressed again within `MOTION_TIMEOUT` leaves two chains, which move
  at twice the pace (`FullImageMandelbrotViewer.js:218`); a frame is captured every
  `timeouts_per_frame + 1` timeouts (62, 327); the record button stays on at the frame limit
  (321); playing with nothing recorded throws (543); a destroyed viewer goes on playing and
  polling, and shares the buttons with the next one (390, 478).
- *Conversion.* A digit equal to the base is accepted (`warpv.js:278`); a field too
  wide for its bits leaks into its neighbours (284); an empty constant ends a line
  without an error.
- *Simulated kernel.* `phase_cnt` counts the phases of all runs, so the host exits in the
  middle of some run after enough of them, though the message says "Kernel failed to
  complete within" (111-112); results that a run of vadd does not ask for are the first of the
  next run; a run of vadd that sends two chunks more than it asks results for ends the host.

Bounds.

- *Time bomb and system.* The constants are small times in the proportions that
  matter: waits longer than a call, a watch longer and shorter than the reset
  time, a start longer than the reset time, several
  pings per reset time. Two processes make the race for the file, the take-over
  and the orphaned call happen; the system has the one that its server starts. `MaxRare` is 0 or 1
  for 1000, `DoneWait` 1 or 2 for 10. `MaxChains` bounds the chains of all pages
  together: 2 gives one page a second chain or each of two pages one, and what
  pages do to each other goes through the queue alone. Pages are symmetric in
  `system`, which has no liveness property.
- *Viewer.* Three events of the user (any control, then another, then back, say) with
  any number of images, polls and timeouts between; two viewers, so that a
  destroyed one and its successor overlap; spots end at depth 2 instead of 40
  and the theme repeats after 2 seconds instead of 3; one container width, narrower than
  stereo in VR needs. `viewer_stops` needs one event.
- *Playback.* Recordings of at most 2 frames (2000 in the code) and
  `TimeoutsPerFrame` 1 (2), so that limits and ends are reached; two chains of motion; seven
  events, enough to record, play, stop and play again while the first playback's image is on
  its way; two viewers.
- *Connection.* Two clicks, of the run, send or trace button, over five sockets: more than the four
  failures after which the code gives up. `IMEM_SIZE` is 2 (16), so that a program may be
  shorter than the one before it or miss a line. `MaxPending` bounds only when a
  ping is sent. `connection_handler` needs two sockets and one address.
- *Simulated kernel.* A pipeline of 2 chunks with runs of 0 to 3 chunks and results, so that it
  fills, blocks and drains; two runs, since what one leaves on the pins and in the pipeline
  matters to the next; `MAX_PHASES` 40 and `MAX_TRACE_PHASES` 14, which both end some runs and
  let others complete.
- *Assembly.* Words of 4 bits (32): fields of 1 to 4 bits, the highest bit, shifts
  by the width and beyond; all lines of up to three of eleven constants, and programs of three
  lines with and without marks.

Fairness. `FairSpec` and `SysFairSpec` of the time bomb and the system assume that
time goes on (strongly fair, since whatever is done in no time disables it for a moment),
that the shells, the processes and the server take the step that is due (weakly
fair: the operating system schedules them), that browsers fire their timeouts,
that every `aws` call ends, with success or failure, and that EC2 stops what it said it
would. `Ec2Stop` is strongly fair: of the stop requests that the bomb makes again and again EC2
takes some, as no liveness can be had if it takes none; their answers may all be lost. In `Demo`, `Playback` and `Connection` the
browser runs what is due, every request is answered or fails, a socket opens or
closes, and the server serves, all weakly fair. In `SimKernel` the loop goes on. No
user has to do anything, nothing has to be killed or to crash, and no call has to
fail.

## 5. What is proved

Every safety invariant and action property that the passing runs check, from the
named assumptions of the modules alone (but for `Implementation` and `UsersAreKept`, whose one more
condition is named below): for any number of processes, pages, sockets,
viewers and chains, any times, sizes and limits, any program.

| Module | Theorem | States |
|---|---|---|
| `TimeBombProofs` | `TypeCorrect`, `JustifiedStops`, `InTime`, `Implementation` | `TypeOK`, `StopJustified`, `StoppedInTime`, `ImplementsSwitch` |
| `F1SystemProofs` | `SystemIsTimeBomb` | `SysSpec => Spec` of the time bomb |
| | `SystemKeepsTimes` | `StoppedInTime` and `StopJustified` in the system |
| | `SystemTypeCorrect`, `StartsAreUnderBomb` | `SysTypeOK`, `StartedUnderBomb` |
| `F1KeptAliveProofs` | `UsersAreKept` | `KeptAlive`, given `LongEnough` (`ResetTime > PingPeriod + 1`) |
| `ConnectionProofs` | `ChainsBounded`, `ConnectionNeverForgotten`, `OpenIsKeptAlive`, `ResultOfWhatWasSent`, `TracingStaysInStep` | `ConnTypeOK`, `NeverForgotten`, `KeptAlive`, `RunsWhatWasSent`, `TracingInStep` |
| `DemoProofs` | `EqualViewsSameImage` | views that are `equals` have one image URL |
| | `CopyIsExact` | a copied view is the view |
| | `DemoTypes`, `PageInStep`, `WaitsWithItsImage`, `SpotsAreLed`, `DestroyedDrawNothing` | `DemoTypeOK`, `InStep`, `WaitingShowsRequested`, `SpotIsLed`, `OnlyOpenDraws` |
| `PlaybackProofs` | `PlaybackTypes`, `PlaybackHasOneDriver`, `RecordingEnds`, `ButtonsTellPlayback`, `BurnedInOrder` | `PlaybackTypeOK`, `OneDriver`, `FramesBounded`, `ButtonsTell`, `BurnsInOrder` |
| `SimKernelProofs` | `SimTypes`, `RunsAreCalls`, `VaddPace` | `SimTypeOK`, `ImplementsCalls`, `VaddKeepsPace` |
| | `StreamInOrder` | chunks and results are one first-in first-out stream, also while a run is in progress |
| `AssemblerProofs` | `AssemblerTypes`, `WordsExact`, `WordsInPlace` | `AssemblerTypeOK`, `ExactWords`, `InPlace` |
| | `MarkedProgramsConvert` | what `Converts` says of a conversion that has ended |

*Time bomb* (`FailWait` and `SleepTime` at most `WatchTimeout`, as in the code).
`StoppedInTime` bounds a clock, `quiet`, at all times; to be inductive it has to say how
much of that time each guarding process may still need. `Left(p)` is that measure:
by where the process is, what is left of its wait, then the time until its poll
finds the timer run out (`UntilCall`: the polls overshoot the reset time by less
than a period), then one call. The longest case is a stop that EC2 has taken and
not answered: the answer, a watch that has missed the reset, a poll, a call.
`Timely` says that `quiet + Left(p)` never exceeds `Bound`. A tick adds one to `quiet`
and takes one from every `Left(p)`; whatever counts `quiet` afresh restores the
bound, since no `Left(p)` exceeds it; the other steps do not increase any
`Left(p)`. `Shape` collects what that needs: how long each wait can be, that a call
belongs to a process that waits for it or was killed, that the pid of a command
is a process, and that an instance has not been quiet for longer than its file
is old. `IInv` is the conjunction with `TypeOK` and `StopJustified`. The refinement
maps every action to the one of `DeadMansSwitch` it implements (or to a stutter):
`Ec2Stop` is a `Cut` by `StopJustified`, `Tick` an `Elapse` by `StoppedInTime`. It
is for users who do not detonate (`~ Detonating`), since the switch's `Throw` is not implemented;
the other three theorems hold with `detonate` too.

*System.* Every step of the system is a step of the time bomb or leaves it alone,
so `SysSpec => Spec`, and `StoppedInTime` and `StopJustified` hold of it. For `StartedUnderBomb` the
invariant `BombThere` says where the server can be without a bomb: once it has
told the bomb to be done, it starts nothing again; before, a process runs that only
`done` ends (crashes end the server, and what EC2 was asked by then was asked under
the bomb).

*Users are kept.* `KeptAlive` says that once the server has rested for longer than a call no stop takes
effect while a page uses the instance. `PageInv` follows each page: it has one start request
at a time (`RequestOK`), a chain of timeouts as long as it wants the instance (`ChainLives`), and, from
when its start is served, a next ping that comes in time, or a reset in the queue (`PingInTime`).
`UseInv` is about the time since the server's last start: from one tick after it the file is
young, because a free server serves the resets that queued up before time goes on, so no new
call is made; and each call made before then has a remainder that shrinks as the server
rests. When it has rested for longer than `AwsTime` there is none. This needs only `LongEnough`, that a ping
comes before the bomb runs out, a second lost by a `detonate` included; how long starts and calls last
does not matter.

*Connection.* `IInv` adds to the four properties that each chain of pings belongs to a
socket opened (`OneChainEach`), that the counter of reconnections and the timeout fit
(`MayReconnect`), and that each run in the inbox of a program without an error has, as the last write before it, the
write of all its lines, or no write before it and its lines in memory already (`WrittenFirst`); what a socket's
end leaves of a batch of messages keeps that.
`TracingInStep` speaks of an inbox without trace messages, and is not inductive. `WillTrace` says
what the messages that wait will make of the kernel: the last of them about tracing asks for what
the page shows, and if there is none the kernel does it already. `TracingInv` is that of the inbox,
unless a message was lost; what is appended to the inbox and what is served keep it.

*Views and page.* `InStep` is inductive with the host (`HostInv`), the sizes and separations
(`SizesInv`) and what each viewer last requested (`ViewersInv`); `MapInv` holds what the
map was opened with, `SpotInv` that spots reset the depth only if it is theirs.
`WaitingShowsRequested` rests on `EqualViewsSameImage` and `CopyIsExact`.

*Playback.* Calls of earlier playbacks carry smaller ids than the current one (`Known`), and
the current playback has one call unless it crashed (`Driven`). `FramesOK` is the limit with
the frame that is captured after it. `BurnsInOrder` is shown action by action: the start of a playback
requests frame 0 (`StartInOrder`), and a call requests something only if its id is the current one
(`CallInOrder`), when by `Driven` it was the only call of that playback, so the frame it asks for is the only one.

*Simulated kernel.* What the driver has counted and what the kernel holds differ, between the
handshake and the clock edge that carries it out, by one chunk (`Taking`) and one
result (`Giving`), also between runs. `PipelineInOrder` says so for any depth; for
vadd everything is on the pins, except in a run that can never end (`Jammed`). With
`FirstInFirstOut` (what was received so far) that is inductive. In the refinement to
`KernelCalls` the loop stutters up to the handshake that ends it, which is `Run`: `Returns` needs
of that state that nothing is left to send or to take, `FirstInFirstOut` for the results, and
`Room` for what stays in the kernel. `VaddPace` adds that vadd is one chunk ahead after
its first cycle.

*Assembler* (`Width` at least 2, texts of at least one line). The model computes what the loops
do with recursive functions, and what each computes for any length is proved by induction, for
which the provers have no rule here: a set of numbers has a least element (`WFMin`), so a set
that has 0 and the successor of each of its members is all of `Nat` (`SetInduction`). By it
a recursion has a value (`Recursion`, `RecursionTo`), which says of each of the five functions
what its definition says (`PowersDefined` and the like); the rest are inductions over those. The loop over digits,
which goes from the right, computes the numeral read from the left (`ConstIsNumeral`: the digits
that it has not taken, times a power, plus what it has). The word of a legal line is, at each of its
fields, what is below, the field, and a multiple of what is above (`LegalSum`), so a bit of the
field is a bit of the word (`FieldBits`); what is below is less than the field's place (`LegalValues`).
`ConvInv` relates lines, addresses and chunks: the counted lines are the last ones before `i`
and begin behind the first mark (`MarkInv`), a chunk is the word of its line (`ChunkInv`), and
each counted line has a chunk or has left an error (`LineInv`).

All parts of these invariants were checked with TLC before they were proved.

Only model-checked: the liveness properties (`KeptOff`, `DoneExits`, `PendingResolves`,
`NobodyLeft`, `Settles`, `SpotEnds`, `PlaybackEnds`, `MotionEnds`, `LastIsShown`,
`Reconnects`, `StartEnds`, `Converts`), fairness being beyond the provers used.

## 6. What is not modelled

- *Host socket.* `server_api.py` and `server_main.c` agree on framing and turns by
  convention only: `recv` may return less than it was asked for (the four bytes of a size field,
  line 141), and nothing when the host is gone, whereupon the loop at line 152 never ends
  and the single thread hangs. The host's side, its main loop included, is inside a comment
  (103-443), so there is no second party in the code to compose with.
- *Hardware kernel, host applications.* Straight-line OpenCL calls; floating-point
  arithmetic.
- *FPGA kernels.* What they compute. Their flow control is in `SimKernel` as far as it is one
  result for one chunk.
- *Mandelbrot web server.* Single-threaded and serial: it answers each request before
  the next, so observers and casters do not overlap within it. What can go wrong is
  on disk (an image is replaced by removing its directory first, and an observer is
  marked as served before the image is opened, `mandelbrot_server.py:292`) and in types: the image is
  bytes and the file opened as text (249-250), so an image request that casts fails. `Demo` and
  `Playback` take its answers and failures as inputs.
- *Launch.* A shell script with signal traps around two children. The hazard noted at
  line 301 (an upgrade that launches again while a kill signal asks for the end) depends on when bash
  runs traps in a subshell, which the source does not fix; and `launch -h` with a numeric pid clears it, its
  test being inverted.
- *Two pages on one kernel*, which no code arbitrates.
- *The rest*: `ec2_time_bomb_server.py` (used by nothing), provisioning and regression scripts,
  build descriptions, page layout and rendering, PNG encoding, and the React
  application (under construction).
