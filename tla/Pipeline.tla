------------------------------ MODULE Pipeline ------------------------------
(***************************************************************************)
(* The test driver on the host (scripts/auto_test_pipeline.rs): drive and  *)
(* exec_steps run a scenario against the booted system, while a watcher    *)
(* thread polls the serial log for a pattern that means failure and for a  *)
(* freeze.                                                                 *)
(*                                                                         *)
(* The log is a sequence of lines, a line its pattern.  Time is counted in *)
(* units of the watcher's pause; a thread may be delayed past its wake-up  *)
(* and between any two of its steps.                                       *)
(***************************************************************************)
EXTENDS Integers, FiniteSets, SequencesExt

CONSTANTS
    Scenario,       \* cfg.steps: kind, and pat, time, or count and body
    FailOn,         \* cfg.fail_on
    Liveness,       \* the values of cfg.liveness_pattern, NoPattern for none
    NoPattern,
    LogLines,       \* what the system may print
    IdleTimeout, ExpectTimeout, BootTimeout, AfterWait,
    MaxLog, MaxTime \* bounds

VARIABLES
    log,        \* serial.log
    time,       \* Instant::now
    runner,     \* at, todo (steps left), until (deadline), verdict, and the lines
                \* the watcher had looked through at the last look at its abort
    watcher,    \* at, wake, and the locals of the watcher thread; growth says when
                \* the log that it read had last grown
    abort,      \* Watch.abort, and the silence it rests on
    stop,       \* Watch.stop
    grown,      \* when the log grew: by any line, by a liveness line
    found,      \* patterns of the expect steps passed
    scanned     \* lines the watcher has looked through

pipelineVars == <<log, time, runner, watcher, abort, stop, grown, found, scanned>>

NotAborted == [why |-> "none", silence |-> 0, blind |-> FALSE]

Unstarted(p) ==
    [at |-> "off", pattern |-> p, wake |-> 0, read |-> 0, size |-> 0, change |-> 0, beats |-> 0,
     beat |-> 0, seen |-> FALSE, reported |-> FALSE, blind |-> FALSE, growth |-> 0]

PipelineInit ==
    /\ log = <<>> /\ time = 0
    /\ runner = [at |-> "port", todo |-> Scenario, until |-> BootTimeout, verdict |-> "none", looked |-> 0]
    /\ watcher \in {Unstarted(p) : p \in Liveness}
    /\ abort = NotAborted /\ stop = FALSE
    /\ grown = [any |-> 0, beat |-> 0] /\ found = {} /\ scanned = 0

Shown(n) == Range(SubSeq(log, 1, n))

LogContains(pat) == pat \in Shown(Len(log))

-----------------------------------------------------------------------------
(* The machine under test, and the clock.                                  *)

Prints(l) ==
    /\ Len(log) < MaxLog
    /\ log' = Append(log, l)
    /\ grown' = [any |-> time, beat |-> IF l = watcher.pattern THEN time ELSE grown.beat]
    /\ UNCHANGED <<time, runner, watcher, abort, stop, found, scanned>>

Tick ==
    /\ time < MaxTime
    /\ time' = time + 1
    /\ UNCHANGED <<log, runner, watcher, abort, stop, grown, found, scanned>>

-----------------------------------------------------------------------------
(* drive and exec_steps.                                                   *)

RunnerAt(at) == runner.at = at /\ UNCHANGED <<log, time, grown, scanned>>

Proceed(at, wait) == [runner EXCEPT !.at = at, !.until = time + wait]

\* The outcome of drive, which then stops the watcher and joins it
Outcome(v) == [runner EXCEPT !.at = "stop", !.until = 0, !.verdict = v, !.looked = scanned]

\* wait_port: without a monitor there is no run.
WaitPort ==
    /\ RunnerAt("port")
    /\ \/ runner' = Proceed("boot", BootTimeout)
       \/ time >= runner.until /\ runner' = [runner EXCEPT !.at = "done", !.verdict = "FAIL"]
    /\ UNCHANGED <<watcher, abort, stop, found>>

\* wait_pattern for the prompt, which is not insisted on; then spawn_watcher.
WaitPrompt ==
    /\ RunnerAt("boot")
    /\ LogContains("prompt") \/ time >= runner.until
    /\ runner' = [runner EXCEPT !.at = "steps", !.until = 0]
    /\ watcher' = [watcher EXCEPT !.at = "spawned"]
    /\ UNCHANGED <<abort, stop, found>>

\* One step of exec_steps.  A repeat is its body and the iterations left.
ExecStep ==
    /\ RunnerAt("steps")
    /\ IF abort # NotAborted /\ runner.todo # <<>> THEN runner' = Outcome("FAIL")
       ELSE IF runner.todo = <<>> THEN runner' = Proceed("after", AfterWait)
       ELSE LET step == Head(runner.todo)
                rest == [runner EXCEPT !.todo = Tail(@)]
            IN  \/ step.kind = "send" /\ runner' = rest
                \/ step.kind = "wait" /\ runner' = [rest EXCEPT !.at = "wait", !.until = time + step.time]
                \/ step.kind = "expect" /\ runner' = Proceed("expect", ExpectTimeout)
                \/ /\ step.kind = "repeat"
                   /\ runner' = IF step.count = 0 THEN rest
                                ELSE [rest EXCEPT !.todo =
                                        step.body \o <<[step EXCEPT !.count = @ - 1]>> \o @]
    /\ UNCHANGED <<watcher, abort, stop, found>>

\* wait_pattern_watched: an abort is looked at first, and the deadline before it.
ExpectPass ==
    /\ RunnerAt("expect")
    /\ time < runner.until /\ abort = NotAborted /\ LogContains(Head(runner.todo).pat)
    /\ found' = found \cup {Head(runner.todo).pat}
    /\ runner' = [runner EXCEPT !.at = "steps", !.until = 0, !.todo = Tail(@)]
    /\ UNCHANGED <<watcher, abort, stop>>

ExpectFail ==
    /\ RunnerAt("expect")
    /\ time >= runner.until \/ abort # NotAborted
    /\ runner' = Outcome("FAIL")
    /\ UNCHANGED <<watcher, abort, stop, found>>

\* sleep_checked
SleptEnough == abort # NotAborted \/ time >= runner.until

WaitStep ==
    /\ RunnerAt("wait") /\ SleptEnough
    /\ runner' = [runner EXCEPT !.at = "steps", !.until = 0]
    /\ UNCHANGED <<watcher, abort, stop, found>>

VerdictUnlooked == "PASS"

Verdict == IF abort = NotAborted THEN "PASS" ELSE "FAIL"

\* The last look at the abort flag.
AfterScenario ==
    /\ RunnerAt("after") /\ SleptEnough
    /\ runner' = Outcome(Verdict)
    /\ UNCHANGED <<watcher, abort, stop, found>>

StopWatcher ==
    /\ RunnerAt("stop")
    /\ stop' = TRUE
    /\ runner' = [runner EXCEPT !.at = "join"]
    /\ UNCHANGED <<watcher, abort, found>>

JoinWatcher ==
    /\ RunnerAt("join") /\ watcher.at = "gone"
    /\ runner' = [runner EXCEPT !.at = "done"]
    /\ UNCHANGED <<watcher, abort, stop, found>>

-----------------------------------------------------------------------------
(* spawn_watcher.                                                          *)

WatcherAt(at) == watcher.at = at /\ UNCHANGED <<log, time, runner, stop, grown, found>>

WatcherStarts ==
    /\ WatcherAt("spawned")
    /\ watcher' = [watcher EXCEPT !.at = "loop", !.size = Len(log), !.change = time, !.beat = time]
    /\ UNCHANGED <<abort, scanned>>

\* set_abort keeps the first reason.
SetAbort(why) ==
    abort' = IF abort # NotAborted THEN abort
             ELSE [why |-> why, silence |-> time - watcher.growth, blind |-> watcher.blind]

\* When the log last grew in the way that the watcher looks for
Growth == IF watcher.pattern = NoPattern THEN grown.any ELSE grown.beat

\* The loop's test and the read of the whole log, which may fail: it is being
\* written, and is not valid text at every moment.
WatcherRead ==
    /\ WatcherAt("loop")
    /\ IF stop THEN watcher' = [watcher EXCEPT !.at = "gone"]
       ELSE \/ watcher' = [watcher EXCEPT !.at = "scan", !.read = Len(log), !.blind = FALSE,
                                !.growth = Growth]
            \/ watcher' = [watcher EXCEPT !.at = "freeze", !.blind = TRUE]
    /\ UNCHANGED <<abort, scanned>>

BeatsRead == Cardinality({i \in 1 .. watcher.read : log[i] = watcher.pattern})

Noted ==
    LET w == watcher
        sized == IF w.read = w.size THEN w ELSE [w EXCEPT !.size = w.read, !.change = time]
    IN  IF BeatsRead > w.beats
        THEN [sized EXCEPT !.beats = BeatsRead, !.beat = time, !.seen = TRUE] ELSE sized

WatcherScan ==
    LET fails == FailOn \cap Shown(watcher.read) # {}
    IN  /\ WatcherAt("scan")
        /\ IF ~watcher.reported /\ fails THEN SetAbort("pattern") ELSE UNCHANGED abort
        /\ watcher' = [Noted EXCEPT !.at = "freeze", !.reported = @ \/ fails]
        /\ scanned' = watcher.read

\* Frozen since the last liveness line, if there was one, or since the log grew
Frozen == IF watcher.pattern # NoPattern
          THEN watcher.seen /\ time - watcher.beat >= IdleTimeout
          ELSE watcher.size > 0 /\ time - watcher.change >= IdleTimeout

\* The locals of one pass are gone.
PassOver == [watcher EXCEPT !.read = 0, !.growth = 0, !.blind = FALSE]

WatcherFreeze ==
    /\ WatcherAt("freeze")
    /\ IF IdleTimeout > 0 /\ Frozen
       THEN /\ SetAbort("freeze")
            /\ watcher' = [PassOver EXCEPT !.at = "gone"]
       ELSE /\ watcher' = [PassOver EXCEPT !.at = "asleep", !.wake = time + 1]
            /\ UNCHANGED abort
    /\ UNCHANGED scanned

WatcherWakes ==
    /\ WatcherAt("asleep") /\ time >= watcher.wake
    /\ watcher' = [watcher EXCEPT !.at = "loop", !.wake = 0]
    /\ UNCHANGED <<abort, scanned>>

PipelineNext ==
    \/ \E l \in LogLines : Prints(l)
    \/ Tick
    \/ WaitPort \/ WaitPrompt \/ ExecStep \/ ExpectPass \/ ExpectFail \/ WaitStep
    \/ AfterScenario \/ StopWatcher \/ JoinWatcher
    \/ WatcherStarts \/ WatcherRead \/ WatcherScan \/ WatcherFreeze \/ WatcherWakes

PipelineSpec == PipelineInit /\ [][PipelineNext]_pipelineVars

-----------------------------------------------------------------------------
(* Properties.                                                             *)

\* A PASS means that every step ran, that each expected pattern was printed, and
\* that no line the watcher had been through by the last look matches --fail-on
\* (drive, exec_steps, spawn_watcher).  A pattern is missed when it is printed after
\* the watcher's last read, or read by a pass that reports it after the last look.
PassMeansClean ==
    runner.verdict = "PASS" =>
        /\ runner.todo = <<>>
        /\ \A step \in Range(Scenario) : step.kind = "expect" => step.pat \in found
        /\ found \subseteq Range(log)
        /\ FailOn \cap Shown(runner.looked) = {}

\* A freeze is reported only when what the watcher read of the log had last grown the
\* idle timeout ago, with the liveness pattern as without it (spawn_watcher: "so
\* legitimate workload-quiet periods don't false-positive").  Two exceptions: the log
\* could not be read, and lines printed since the read, which a watcher delayed
\* between the read and the check does not see.
FreezeIsRealAsRead ==
    abort.why = "freeze" => abort.silence >= IdleTimeout \/ abort.blind

\* The verdict and the watcher's reports are true of the log, and the watcher's
\* clocks of the past (spawn_watcher, drive).
PipelineInv ==
    /\ PassMeansClean
    /\ FreezeIsRealAsRead
    /\ scanned <= Len(log) /\ watcher.size <= Len(log)
    /\ watcher.change <= time /\ watcher.beat <= time
=============================================================================
