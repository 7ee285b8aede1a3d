---------------------------- MODULE DebugSession ----------------------------
(***************************************************************************)
(* The session file of nprt-debug (main.c): every command is a process of  *)
(* its own that loads debug_session.state, does its work, and writes the   *)
(* whole state anew.  The file has a line for each field; reading it stops *)
(* at the first text that is empty, and all fields behind that line keep   *)
(* their defaults.                                                         *)
(*                                                                         *)
(* Commands do not overlap here.  Texts given on the command line are not  *)
(* empty.  A file is shorter than one buffer of the C library.  Fields     *)
(* that stand together and are given together are one: the two ends of a   *)
(* range, the undo and redo of an edit.  The time of the last change is    *)
(* left out.                                                               *)
(***************************************************************************)
EXTENDS Naturals, Sequences

CONSTANTS Pids, NoPid,
          Texts,      \* what may be given as a text
          BadTexts,   \* expressions that do not evaluate
          Modes,      \* of step
          Endpoints,  \* what remote-config may be given
          Latencies, Frames, Ranges,
          Hits,       \* what --hit may be given
          MaxHits     \* bound: the hit counter

ASSUME DebugAssumption ==
  /\ NoPid \notin Pids /\ "" \notin Texts \cup BadTexts /\ Texts \cap BadTexts = {}
  /\ Latencies \subseteq Nat /\ Frames \subseteq Nat /\ Hits \subseteq 0 .. MaxHits
  /\ MaxHits \in Nat /\ "" \notin Endpoints

\* No file, or an empty one.
Nothing == <<>>

\* The fields in the order of their lines.
Order == << "pid", "attached", "last_breakpoint", "last_step", "condition_expr",
            "log_format", "trace_data", "hit_counter", "hw_data_access", "hw_exec",
            "step_blacklist", "remote_latency_ms", "current_frame", "last_var_name",
            "last_var_value", "var_format", "memory_last_pattern", "memory_undo",
            "expr_history", "remote_endpoint", "remote_compress",
            "dylib_filter" >>
Fields == {Order[k] : k \in DOMAIN Order}
Numbers == {"pid", "attached", "hit_counter", "hw_exec", "remote_latency_ms",
            "current_frame", "remote_compress"}

\* state_default.
Default ==
  [k \in Fields |->
     CASE k = "pid" -> NoPid
       [] k \in {"attached", "remote_compress"} -> FALSE
       [] k \in {"hit_counter", "current_frame"} -> 0
       [] k = "hw_exec" -> Nothing
       [] k = "remote_latency_ms" -> 20
       [] k = "last_step" -> "in"
       [] k = "var_format" -> "dec"
       [] k = "remote_endpoint" -> "127.0.0.1:9000"
       [] OTHER -> ""]

Needing == {"break", "hbreak-data", "hbreak-exec", "step", "stack", "setvar", "vars",
            "mem-search", "mem-edit", "dylib-break", "thread-locks"}
Free == {"eval", "remote-config", "remote-send"}

Kind(c) ==
  CASE c \in Needing -> "inside"
    [] c \in Free    -> "anywhere"
    [] OTHER         -> c

VARIABLES
  file,     \* debug_session.state
  cfg,      \* debug_remote.cfg
  stage,    \* how far the command is
  command,  \* which command it is
  st,       \* its DebugState
  last,     \* history: the kind of command that took effect last
  broken    \* history: a command was cut off between its writes

debugVars == <<file, cfg, stage, command, st, last, broken>>

-----------------------------------------------------------------------------
(* Loading.                                                                *)

\* The texts on the lines up to that of a field.
TextsUpTo ==
  [k \in Fields |->
     LET line == CHOOSE n \in DOMAIN Order : Order[n] = k
     IN {Order[j] : j \in 1 .. line} \ Numbers]

\* state_load: fscanf returns 1 for a line without a value, and the loop ends.
Loaded(f) ==
  IF f = Nothing THEN Default
  ELSE [k \in Fields |-> IF \A t \in TextsUpTo[k] : f[t] # "" THEN f[k] ELSE Default[k]]

-----------------------------------------------------------------------------
(* What each command makes of the state it loaded: one state for each way  *)
(* to give its arguments, none where it fails.                             *)

\* Options of the command line, each of which may be given or not.
Options(fields) == UNION {[given -> Texts] : given \in SUBSET fields}

\* A state with the options that were given.
Given(s, options) == [k \in Fields |-> IF k \in DOMAIN options THEN options[k] ELSE s[k]]

Detach(s) == IF s.attached THEN {[s EXCEPT !.attached = FALSE, !.pid = NoPid]} ELSE {}

\* A pid is given, or a name that stands for one; attaching again is allowed.
Attach(s) == {[s EXCEPT !.attached = TRUE, !.pid = p] : p \in Pids}

\* Mutant: the condition is not evaluated.
ConditionUnseen(s, options) == TRUE

\* Whatever condition the state holds now, given or loaded, must evaluate.
ConditionHolds(s, options) == Given(s, options).condition_expr \notin BadTexts

BreakOptions ==
  Options({"condition_expr", "log_format", "trace_data"})
    \cup [{"condition_expr"} -> BadTexts]

Stopping(s, l, hits, options) ==
  [Given(s, options) EXCEPT !.last_breakpoint = l, !.hit_counter = hits]

Break(s) ==
  {Stopping(s, l, hits, options) :
     l \in Texts, hits \in {n \in 0 .. MaxHits : n = s.hit_counter + 1 \/ n \in Hits},
     options \in {o \in BreakOptions : ConditionHolds(s, o)}}

Stepping(s, mode, ms, options) ==
  [Given(s, options) EXCEPT !.last_step = mode, !.remote_latency_ms = ms]

Step(s) ==
  {Stepping(s, mode, ms, options) :
     mode \in Modes, ms \in Latencies \cup {s.remote_latency_ms},
     options \in Options({"step_blacklist"})}

SetText(s, fields) == {Given(s, options) : options \in [fields -> Texts]}

\* The edit is what undo would go back to; undo and redo change nothing.
MemEdit(s) == {s} \cup SetText(s, {"memory_undo"})

Endpoint(s, e) == [s EXCEPT !.remote_endpoint = e]
Transport(s, e, on, ms) ==
  [s EXCEPT !.remote_endpoint = e, !.remote_compress = on, !.remote_latency_ms = ms]

RemoteConfig(s) ==
  {Endpoint(s, e) : e \in Endpoints}
    \cup {Transport(s, e, on, ms) :
            e \in Endpoints, on \in BOOLEAN, ms \in Latencies \cup {s.remote_latency_ms}}

\* The commands inside the gate of st.attached.
Worked(s, c) ==
  CASE c = "break"       -> Break(s)
    [] c = "hbreak-data" -> SetText(s, {"hw_data_access"})
    [] c = "hbreak-exec" -> {[s EXCEPT !.hw_exec = r] : r \in Ranges}
    [] c = "step"        -> Step(s)
    [] c = "stack"       -> {s} \cup {[s EXCEPT !.current_frame = n] : n \in Frames}
    [] c = "setvar"      -> SetText(s, {"last_var_name", "last_var_value"})
    [] c = "vars"        -> {s} \cup SetText(s, {"last_var_name"}) \cup SetText(s, {"var_format"})
    [] c = "mem-search"  -> SetText(s, {"memory_last_pattern"})
    [] c = "mem-edit"    -> MemEdit(s)
    [] c = "dylib-break" -> SetText(s, {"dylib_filter"})
    [] OTHER             -> {}

\* Mutant: only break looks at st.attached.
EffectsUngated(s, c) ==
  CASE c = "attach"        -> Attach(s)
    [] c = "detach"        -> Detach(s)
    [] c = "eval"          -> SetText(s, {"expr_history"})
    [] c = "remote-config" -> RemoteConfig(s)
    [] OTHER               -> IF s.attached \/ c # "break" THEN Worked(s, c) ELSE {}

Effects(s, c) ==
  CASE c = "attach"        -> Attach(s)
    [] c = "detach"        -> Detach(s)
    [] c = "eval"          -> SetText(s, {"expr_history"})
    [] c = "remote-config" -> RemoteConfig(s)
    [] OTHER               -> IF s.attached THEN Worked(s, c) ELSE {}

-----------------------------------------------------------------------------
DebugInit ==
  /\ file = Nothing /\ cfg = Nothing
  /\ stage = "idle" /\ command = "none"
  /\ st = Default
  /\ last = "none" /\ broken = FALSE

\* A command starts and loads the state.
Load ==
  /\ stage = "idle"
  /\ stage' = "loaded"
  /\ command' \in {"attach", "detach"} \cup Needing \cup Free
  /\ st' = Loaded(file)
  /\ UNCHANGED <<file, cfg, last, broken>>

End == stage' = "idle" /\ command' = "none" /\ st' = Default

\* Mutant: remote-config writes the state alone.
WorkUnconfigured ==
  /\ stage = "loaded"
  /\ st' \in Effects(st, command)
  /\ stage' = "decided"
  /\ UNCHANGED <<file, cfg, command, last, broken>>

\* The command does its work on the state; remote-config goes on to its file.
Work ==
  /\ stage = "loaded"
  /\ st' \in Effects(st, command)
  /\ stage' = IF command = "remote-config" THEN "configuring" ELSE "decided"
  /\ UNCHANGED <<file, cfg, command, last, broken>>

\* A command that fails: not attached, no such process, an expression that
\* does not evaluate, arguments that make no sense.
Fail ==
  /\ stage = "loaded"
  /\ End
  /\ UNCHANGED <<file, cfg, last, broken>>

\* thread-locks, deadlock and dylib-load-symbol save nothing; nor does
\* remote-send, which reads its file.
Inspect ==
  /\ stage = "loaded"
  /\ \/ command = "thread-locks" /\ st.attached
     \/ command = "remote-send" /\ cfg # Nothing
  /\ last' = Kind(command)
  /\ End
  /\ UNCHANGED <<file, cfg, broken>>

\* ndbg_remote_save_config: fopen empties the file ...
OpenConfig ==
  /\ stage = "configuring" /\ cfg' = Nothing
  /\ stage' = "configured"
  /\ UNCHANGED <<file, command, st, last, broken>>

\* ... or fails, and the command with it.
OpenConfigFails ==
  /\ stage = "configuring"
  /\ End
  /\ UNCHANGED <<file, cfg, last, broken>>

CloseConfig ==
  /\ stage = "configured"
  /\ cfg' = [endpoint |-> st.remote_endpoint, compress |-> st.remote_compress,
             latency |-> st.remote_latency_ms]
  /\ stage' = "decided"
  /\ UNCHANGED <<file, command, st, last, broken>>

\* state_save: fopen empties the file ...
OpenState ==
  /\ stage = "decided"
  /\ file' = Nothing
  /\ stage' = "saving"
  /\ last' = Kind(command)
  /\ UNCHANGED <<cfg, command, st, broken>>

\* ... or fails, which no command looks at.
OpenStateFails ==
  /\ stage = "decided"
  /\ End
  /\ broken' = TRUE
  /\ UNCHANGED <<file, cfg, last>>

CloseState ==
  /\ stage = "saving"
  /\ file' = st
  /\ End
  /\ UNCHANGED <<cfg, last, broken>>

Crash ==
  /\ stage # "idle"
  /\ broken' = IF stage \in {"configured", "decided", "saving"} THEN TRUE ELSE broken
  /\ End
  /\ UNCHANGED <<file, cfg, last>>

DebugNext ==
  \/ Load \/ Work \/ Fail \/ Inspect \/ OpenConfig \/ OpenConfigFails \/ CloseConfig
  \/ OpenState \/ OpenStateFails \/ CloseState \/ Crash

DebugSpec == DebugInit /\ [][DebugNext]_debugVars

-----------------------------------------------------------------------------
(* Properties.                                                             *)

Remembered == Loaded(file)

\* No breakpoint is saved with a condition that does not evaluate, though
\* conditions are kept from one breakpoint to the next.
SavedConditionEvaluates == Remembered.condition_expr \notin BadTexts

\* The two files remote-config writes agree on the endpoint for as long as the
\* session remembers one, unless a command was cut off between its writes.
EndpointsAgree ==
  stage = "idle" /\ ~broken /\ Remembered.remote_endpoint \in Endpoints =>
    cfg # Nothing /\ cfg.endpoint = Remembered.remote_endpoint

\* docs/verification/minimal-toolchain-checklist.md, 6: attach comes before
\* break, step and stack.  The commands together implement one session; while
\* a command saves, the session is what it saves.
SavedPid == IF stage = "saving" THEN st.pid ELSE Remembered.pid
Session == INSTANCE AttachSession WITH session <- SavedPid
ImplementsSession == Session!SessionSpec

\* The same checklist: session state is persisted in debug_session.state.
\* What a command saved is what the next one loads.
LoadsWhatWasSaved == file # Nothing => Remembered = file
=============================================================================
