-------------------------- MODULE DebugSessionProofs --------------------------
(***************************************************************************)
(* Theorems about DebugSession, for any processes, texts and bounds: the   *)
(* commands implement AttachSession, and no breakpoint is saved with a     *)
(* condition that does not evaluate.                                       *)
(***************************************************************************)
EXTENDS DebugSession, TLAPS

-----------------------------------------------------------------------------
(* The fields.                                                             *)

\* The fields the session and its condition are kept in, by their lines.
LEMMA Lines ==
  /\ {"pid", "attached", "condition_expr"} \subseteq Fields
  /\ TextsUpTo["pid"] = {} /\ TextsUpTo["attached"] = {}
<1>1. DOMAIN Order = 1 .. 22
  BY DEF Order
<1>2. Order[1] = "pid" /\ Order[2] = "attached" /\ Order[5] = "condition_expr"
  BY DEF Order
<1>3. {"pid", "attached", "condition_expr"} \subseteq Fields
  BY <1>1, <1>2 DEF Fields
<1>4. \A n \in 1 .. 22 : n # 1 => Order[n] # "pid"
  BY DEF Order
<1>5. \A n \in 1 .. 22 : n # 2 => Order[n] # "attached"
  BY DEF Order
<1>6. (CHOOSE n \in DOMAIN Order : Order[n] = "pid") = 1
  BY <1>1, <1>2, <1>4
<1>7. (CHOOSE n \in DOMAIN Order : Order[n] = "attached") = 2
  BY <1>1, <1>2, <1>5
<1>8. TextsUpTo["pid"] = {Order[j] : j \in 1 .. 1} \ Numbers
  BY <1>3, <1>6 DEF TextsUpTo
<1>9. TextsUpTo["attached"] = {Order[j] : j \in 1 .. 2} \ Numbers
  BY <1>3, <1>7 DEF TextsUpTo
<1> QED
  BY <1>2, <1>3, <1>8, <1>9 DEF Numbers

\* A state a command may save, as far as the session and the condition go.
Sound(s) ==
  /\ DOMAIN s = Fields
  /\ s.attached \in BOOLEAN /\ s.pid \in Pids \cup {NoPid}
  /\ s.attached <=> s.pid # NoPid
  /\ s.condition_expr \notin BadTexts

LEMMA DefaultSound == Sound(Default)
BY Lines, DebugAssumption DEF Sound, Default

\* Loading keeps or forgets the condition, and keeps the session.
LEMMA LoadedSound ==
  ASSUME NEW f, f = Nothing \/ Sound(f)
  PROVE  /\ Sound(Loaded(f))
         /\ Sound(f) => Loaded(f).pid = f.pid
         /\ f = Nothing => Loaded(f).pid = NoPid
<1>1. CASE f = Nothing
  <2>1. ~Sound(f)
    BY <1>1, Lines DEF Sound, Nothing
  <2>2. Loaded(f) = Default
    BY <1>1 DEF Loaded
  <2>3. Default.pid = NoPid
    BY Lines DEF Default
  <2> QED
    BY <1>1, <2>1, <2>2, <2>3, DefaultSound
<1>2. CASE f # Nothing /\ Sound(f)
  <2>1. Loaded(f) = [k \in Fields |-> IF \A t \in TextsUpTo[k] : f[t] # "" THEN f[k] ELSE Default[k]]
    BY <1>2 DEF Loaded
  <2>2. Loaded(f).pid = f.pid /\ Loaded(f).attached = f.attached
    BY <2>1, Lines
  <2>3. Loaded(f).condition_expr \in {f.condition_expr, Default.condition_expr}
    BY <2>1, Lines
  <2>4. DOMAIN Loaded(f) = Fields
    BY <2>1
  <2>5. Default.condition_expr \notin BadTexts
    BY DefaultSound DEF Sound
  <2> QED
    BY <1>2, <2>2, <2>3, <2>4, <2>5 DEF Sound
<1> QED
  BY <1>1, <1>2

-----------------------------------------------------------------------------
(* What the commands make of a state.                                      *)

Commands == {"attach", "detach"} \cup Needing \cup Free

\* Options that leave the session alone.
LEMMA GivenSound ==
  ASSUME NEW s, Sound(s), NEW options, {"pid", "attached"} \cap DOMAIN options = {},
         "condition_expr" \in DOMAIN options => options.condition_expr \notin BadTexts
  PROVE  Sound(Given(s, options)) /\ Given(s, options).pid = s.pid
<1> DEFINE t == Given(s, options)
<1>1. DOMAIN t = Fields /\ t.pid = s.pid /\ t.attached = s.attached
  BY Lines DEF Given
<1>2. t.condition_expr \notin BadTexts
  BY Lines DEF Given, Sound
<1> QED
  BY <1>1, <1>2 DEF Sound

\* Given options are texts.
LEMMA TextsSound ==
  ASSUME NEW s, Sound(s), NEW fields, {"pid", "attached"} \cap fields = {},
         NEW options \in Options(fields)
  PROVE  Sound(Given(s, options)) /\ Given(s, options).pid = s.pid
<1>1. PICK given \in SUBSET fields : options \in [given -> Texts]
  BY DEF Options
<1>2. /\ DOMAIN options \cap {"pid", "attached"} = {}
      /\ "condition_expr" \in DOMAIN options => options.condition_expr \notin BadTexts
  BY <1>1, DebugAssumption
<1> QED
  BY <1>2, GivenSound

LEMMA SetTextSound ==
  ASSUME NEW s, Sound(s), NEW fields, {"pid", "attached"} \cap fields = {},
         NEW t \in SetText(s, fields)
  PROVE  Sound(t) /\ t.pid = s.pid
<1>1. PICK options \in [fields -> Texts] : t = Given(s, options)
  BY DEF SetText
<1>2. options \in Options(fields)
  BY DEF Options
<1> QED
  BY <1>1, <1>2, TextsSound

\* A field that is neither of the session nor the condition.
LEMMA FieldSound ==
  ASSUME NEW s, Sound(s), NEW k, k \notin {"pid", "attached", "condition_expr"}, NEW v
  PROVE  Sound([s EXCEPT ![k] = v]) /\ [s EXCEPT ![k] = v].pid = s.pid
BY DEF Sound

LEMMA BreakSound ==
  ASSUME NEW s, Sound(s), NEW t \in Break(s)
  PROVE  Sound(t) /\ t.pid = s.pid
<1>1. PICK options \in BreakOptions :
        ConditionHolds(s, options) /\ \E l, hits : t = Stopping(s, l, hits, options)
  BY DEF Break
<1>2. Sound(Given(s, options)) /\ Given(s, options).pid = s.pid
  <2>1. CASE options \in Options({"condition_expr", "log_format", "trace_data"})
    BY <2>1, TextsSound
  <2>2. CASE options \in [{"condition_expr"} -> BadTexts]
    <3>1. Given(s, options).condition_expr = options.condition_expr
      BY <2>2, Lines DEF Given
    <3> QED
      BY <1>1, <2>2, <3>1, GivenSound DEF ConditionHolds
  <2> QED
    BY <2>1, <2>2 DEF BreakOptions
<1> QED
  BY <1>1, <1>2 DEF Sound, Stopping

LEMMA StepSound ==
  ASSUME NEW s, Sound(s), NEW t \in Step(s)
  PROVE  Sound(t) /\ t.pid = s.pid
<1>1. PICK options \in Options({"step_blacklist"}) : \E mode, ms : t = Stepping(s, mode, ms, options)
  BY DEF Step
<1>2. Sound(Given(s, options)) /\ Given(s, options).pid = s.pid
  BY TextsSound
<1> QED
  BY <1>1, <1>2 DEF Sound, Stepping

\* The commands inside of a session keep it.
LEMMA WorkedSound ==
  ASSUME NEW s, Sound(s), NEW c, NEW t \in Worked(s, c)
  PROVE  Sound(t) /\ t.pid = s.pid /\ c \in Needing
<1> USE DEF Worked, Needing
<1>1. CASE c = "break"
  BY <1>1, BreakSound
<1>2. CASE c = "hbreak-data"
  BY <1>2, SetTextSound
<1>3. CASE c = "hbreak-exec"
  <2>1. PICK r \in Ranges : t = [s EXCEPT !.hw_exec = r]
    BY <1>3, Zenon
  <2> QED
    BY <1>3, <2>1, FieldSound
<1>4. CASE c = "step"
  BY <1>4, StepSound
<1>5. CASE c = "stack"
  <2>1. t = s \/ \E n \in Frames : t = [s EXCEPT !.current_frame = n]
    BY <1>5, Zenon
  <2>2. ASSUME NEW n, t = [s EXCEPT !.current_frame = n] PROVE Sound(t) /\ t.pid = s.pid
    BY <2>2, FieldSound
  <2> QED
    BY <1>5, <2>1, <2>2
<1>6. CASE c = "setvar"
  BY <1>6, SetTextSound
<1>7. CASE c = "vars"
  BY <1>7, SetTextSound
<1>8. CASE c = "mem-search"
  BY <1>8, SetTextSound
<1>9. CASE c = "mem-edit"
  BY <1>9, SetTextSound DEF MemEdit
<1>10. CASE c = "dylib-break"
  BY <1>10, SetTextSound
<1> QED
  BY <1>1, <1>2, <1>3, <1>4, <1>5, <1>6, <1>7, <1>8, <1>9, <1>10

\* What each kind of command does to the session; every one leaves a state that
\* may be saved.
LEMMA EffectsSound ==
  ASSUME NEW s, Sound(s), NEW c \in Commands, NEW t \in Effects(s, c)
  PROVE  /\ Sound(t)
         /\ Kind(c) = "attach" => t.pid \in Pids
         /\ Kind(c) = "detach" => s.pid # NoPid /\ t.pid = NoPid
         /\ Kind(c) \in {"inside", "anywhere"} => t.pid = s.pid
         /\ Kind(c) = "inside" => s.pid # NoPid
         /\ Kind(c) \in {"attach", "detach", "inside", "anywhere"}
<1>1. CASE c = "attach"
  <2>1. PICK p \in Pids : t = [s EXCEPT !.attached = TRUE, !.pid = p]
    BY <1>1 DEF Effects, Attach
  <2>2. Kind(c) = "attach"
    BY <1>1 DEF Kind, Needing, Free
  <2> QED
    BY <2>1, <2>2, Lines, DebugAssumption DEF Sound
<1>2. CASE c = "detach"
  <2>1. s.attached /\ t = [s EXCEPT !.attached = FALSE, !.pid = NoPid]
    BY <1>2 DEF Effects, Detach
  <2>2. Kind(c) = "detach"
    BY <1>2 DEF Kind, Needing, Free
  <2> QED
    BY <2>1, <2>2, Lines DEF Sound
<1>3. CASE c = "eval"
  <2>1. Kind(c) = "anywhere" /\ t \in SetText(s, {"expr_history"})
    BY <1>3 DEF Kind, Needing, Free, Effects
  <2> QED
    BY <2>1, SetTextSound
<1>4. CASE c = "remote-config"
  <2>1. Kind(c) = "anywhere" /\ t \in RemoteConfig(s)
    BY <1>4 DEF Kind, Needing, Free, Effects
  <2>2. Sound(t) /\ t.pid = s.pid
    <3>1. (\E e : t = Endpoint(s, e)) \/ (\E e, on, ms : t = Transport(s, e, on, ms))
      BY <2>1 DEF RemoteConfig
    <3>2. ASSUME NEW e PROVE Sound(Endpoint(s, e)) /\ Endpoint(s, e).pid = s.pid
      BY DEF Sound, Endpoint
    <3>3. ASSUME NEW e, NEW on, NEW ms
          PROVE  Sound(Transport(s, e, on, ms)) /\ Transport(s, e, on, ms).pid = s.pid
      BY DEF Sound, Transport
    <3> QED
      BY <3>1, <3>2, <3>3
  <2> QED
    BY <2>1, <2>2
<1>5. CASE c \notin {"attach", "detach", "eval", "remote-config"}
  <2>1. s.attached /\ t \in Worked(s, c)
    BY <1>5 DEF Effects
  <2>2. Sound(t) /\ t.pid = s.pid /\ c \in Needing /\ s.pid # NoPid
    BY <2>1, WorkedSound DEF Sound
  <2>3. Kind(c) = "inside"
    BY <2>2 DEF Kind, Needing, Free
  <2> QED
    BY <2>2, <2>3
<1> QED
  BY <1>1, <1>2, <1>3, <1>4, <1>5

-----------------------------------------------------------------------------
(* The inductive invariant.                                                *)

\* What a command is about to save is what it makes of the state in the file,
\* which no other command changes.
DebugInv ==
  /\ file = Nothing \/ Sound(file)
  /\ Sound(st)
  /\ stage \in {"idle", "loaded", "configuring", "configured", "decided", "saving"}
  /\ stage # "idle" => command \in Commands
  /\ stage = "loaded" => st = Loaded(file)
  /\ stage \in {"configuring", "configured", "decided"} => st \in Effects(Loaded(file), command)
  /\ stage = "saving" => file = Nothing

LEMMA DebugInitInvariant == DebugInit => DebugInv
BY DefaultSound DEF DebugInit, DebugInv

LEMMA DebugStep == DebugInv /\ [DebugNext]_debugVars => DebugInv'
<1> SUFFICES ASSUME DebugInv, [DebugNext]_debugVars PROVE DebugInv'
  OBVIOUS
<1>0. Sound(Loaded(file)) /\ Sound(Default)
  BY LoadedSound, DefaultSound DEF DebugInv
<1>1. CASE UNCHANGED debugVars
  BY <1>1 DEF DebugInv, debugVars
<1>2. CASE Load
  BY <1>0, <1>2 DEF Load, DebugInv, Commands
<1>3. CASE Work
  <2>1. stage = "loaded" /\ st = Loaded(file) /\ st' \in Effects(st, command) /\ command \in Commands
    BY <1>3 DEF Work, DebugInv
  <2>2. Sound(st')
    BY <1>0, <2>1, EffectsSound
  <2> QED
    BY <1>3, <2>1, <2>2 DEF Work, DebugInv
<1>4. CASE Fail \/ Inspect
  BY <1>0, <1>4 DEF Fail, Inspect, End, DebugInv
<1>5. CASE OpenConfig \/ OpenConfigFails \/ CloseConfig
  BY <1>0, <1>5 DEF OpenConfig, OpenConfigFails, CloseConfig, End, DebugInv
<1>6. CASE OpenState \/ OpenStateFails \/ CloseState
  BY <1>0, <1>6 DEF OpenState, OpenStateFails, CloseState, End, DebugInv
<1>7. CASE Crash
  BY <1>0, <1>7 DEF Crash, End, DebugInv
<1> QED
  BY <1>1, <1>2, <1>3, <1>4, <1>5, <1>6, <1>7 DEF DebugNext

\* Whatever commands main.c runs, in whatever order, killed or failing at any
\* file call: the two theorems below rest on this.
THEOREM DebugInvariant == DebugSpec => []DebugInv
BY DebugInitInvariant, DebugStep, PTL DEF DebugSpec

\* However the commands follow one another and wherever they are killed, the
\* condition main.c keeps from one breakpoint to the next evaluates.
THEOREM SavedConditionAlwaysEvaluates == DebugSpec => []SavedConditionEvaluates
<1>1. DebugInv => SavedConditionEvaluates
  BY LoadedSound DEF DebugInv, SavedConditionEvaluates, Remembered, Sound
<1> QED
  BY <1>1, DebugInvariant, PTL

-----------------------------------------------------------------------------
(* Refinement.                                                             *)

\* The session begins empty.
LEMMA InitImplements == DebugInit => Session!SessionInit
<1>1. Default.pid = NoPid
  BY Lines DEF Default
<1> QED
  BY <1>1 DEF DebugInit, Session!SessionInit, SavedPid, Remembered, Loaded

\* Every step is one of the session, or leaves it as it is: a command takes
\* effect when it opens the file it saves to.
LEMMA StepImplements ==
  DebugInv /\ DebugInv' /\ [DebugNext]_debugVars =>
    [Session!SessionNext]_<<SavedPid, last, broken>>
<1> SUFFICES ASSUME DebugInv, DebugInv', [DebugNext]_debugVars
             PROVE  Session!SessionNext \/ UNCHANGED <<SavedPid, last, broken>>
  OBVIOUS
<1> USE DEF SavedPid, Remembered
<1>0. Loaded(Nothing).pid = NoPid /\ Loaded(file).pid \in Pids \cup {NoPid}
  BY LoadedSound DEF DebugInv, Sound
<1>1. CASE UNCHANGED debugVars
  BY <1>1 DEF debugVars
<1>2. CASE Load \/ Work \/ Fail \/ OpenConfig \/ OpenConfigFails \/ CloseConfig
  <2>1. UNCHANGED <<file, last, broken>> /\ stage # "saving" /\ stage' # "saving"
    BY <1>2 DEF Load, Work, Fail, OpenConfig, OpenConfigFails, CloseConfig, End
  <2> QED
    BY <2>1
<1>3. CASE Inspect
  <2>1. UNCHANGED <<file, broken>> /\ stage = "loaded" /\ stage' = "idle" /\ last' = Kind(command)
    BY <1>3 DEF Inspect, End
  <2>2. st = Loaded(file) /\ Sound(st)
    BY <2>1 DEF DebugInv
  <2>3. CASE command = "thread-locks" /\ st.attached
    <3>1. Kind(command) = "inside" /\ Loaded(file).pid # NoPid
      BY <2>2, <2>3 DEF Kind, Needing, Free, Sound
    <3> QED
      BY <2>1, <3>1 DEF Session!SessionNext, Session!Work
  <2>4. CASE command = "remote-send"
    <3>1. Kind(command) = "anywhere"
      BY <2>4 DEF Kind, Needing, Free
    <3> QED
      BY <2>1, <3>1 DEF Session!SessionNext, Session!Work
  <2> QED
    BY <1>3, <2>3, <2>4 DEF Inspect
<1>4. CASE OpenState
  <2>1. /\ stage = "decided" /\ stage' = "saving" /\ last' = Kind(command)
        /\ UNCHANGED <<st, broken>>
    BY <1>4 DEF OpenState
  <2>2. /\ st \in Effects(Loaded(file), command) /\ Sound(Loaded(file))
        /\ command \in Commands
    BY <2>1, LoadedSound DEF DebugInv
  <2>3. SavedPid = Loaded(file).pid /\ SavedPid' = st.pid
    BY <2>1
  <2>4. CASE Kind(command) = "attach"
    BY <2>1, <2>2, <2>3, <2>4, EffectsSound DEF Session!SessionNext, Session!Attach
  <2>5. CASE Kind(command) = "detach"
    BY <2>1, <2>2, <2>3, <2>5, EffectsSound DEF Session!SessionNext, Session!Detach
  <2>6. CASE Kind(command) \in {"inside", "anywhere"}
    BY <2>1, <2>2, <2>3, <2>6, EffectsSound DEF Session!SessionNext, Session!Work
  <2> QED
    BY <2>2, <2>4, <2>5, <2>6, EffectsSound
<1>5. CASE OpenStateFails
  <2>1. /\ stage = "decided" /\ stage' = "idle" /\ broken' = TRUE /\ UNCHANGED <<file, last>>
    BY <1>5 DEF OpenStateFails, End
  <2> QED
    BY <2>1 DEF Session!SessionNext, Session!BreakOff
<1>6. CASE CloseState
  <2>1. /\ stage = "saving" /\ stage' = "idle" /\ file' = st /\ UNCHANGED <<last, broken>>
    BY <1>6 DEF CloseState, End
  <2>2. Loaded(st).pid = st.pid
    BY LoadedSound DEF DebugInv
  <2> QED
    BY <2>1, <2>2
<1>7. CASE Crash
  <2>1. stage' = "idle" /\ UNCHANGED <<file, last>>
    BY <1>7 DEF Crash, End
  <2>2. CASE stage \in {"configured", "decided", "saving"}
    <3>1. broken' = TRUE
      BY <1>7, <2>2 DEF Crash
    <3>2. SavedPid' \in {SavedPid, NoPid}
      BY <1>0, <2>1, <2>2 DEF DebugInv
    <3> QED
      BY <2>1, <3>1, <3>2 DEF Session!SessionNext, Session!BreakOff
  <2>3. CASE stage \notin {"configured", "decided", "saving"}
    BY <1>7, <2>1, <2>3 DEF Crash
  <2> QED
    BY <2>2, <2>3
<1> QED
  BY <1>1, <1>2, <1>3, <1>4, <1>5, <1>6, <1>7 DEF DebugNext

\* docs/verification/minimal-toolchain-checklist.md, 6: the commands, each a
\* program of its own, are one session that attach begins and detach ends.
THEOREM ImplementsSessionAlways == DebugSpec => ImplementsSession
<1>1. DebugInit => Session!SessionInit
  BY InitImplements
<1>2. DebugInv /\ DebugInv' /\ [DebugNext]_debugVars =>
        [Session!SessionNext]_<<SavedPid, last, broken>>
  BY StepImplements
<1> QED
  BY <1>1, <1>2, DebugInvariant, PTL DEF DebugSpec, ImplementsSession, Session!SessionSpec

-----------------------------------------------------------------------------
(* The two files of remote-config.                                         *)

LEMMA EndpointField == "remote_endpoint" \in Fields
<1>1. 20 \in DOMAIN Order /\ Order[20] = "remote_endpoint"
  BY DEF Order
<1> QED
  BY <1>1 DEF Fields

\* What is loaded is the endpoint of the file, or the default.
LEMMA LoadedEndpoint ==
  ASSUME NEW f
  PROVE  /\ f = Nothing => Loaded(f).remote_endpoint = Default.remote_endpoint
         /\ Loaded(f).remote_endpoint \in {f.remote_endpoint, Default.remote_endpoint}
BY EndpointField DEF Loaded

\* Options that do not name the endpoint keep it.
LEMMA GivenEndpoint ==
  ASSUME NEW s, NEW options, "remote_endpoint" \notin DOMAIN options
  PROVE  Given(s, options).remote_endpoint = s.remote_endpoint
BY EndpointField DEF Given

LEMMA SetTextEndpoint ==
  ASSUME NEW s, NEW fields, "remote_endpoint" \notin fields, NEW t \in SetText(s, fields)
  PROVE  t.remote_endpoint = s.remote_endpoint
<1>1. PICK options \in [fields -> Texts] : t = Given(s, options)
  BY DEF SetText
<1> QED
  BY <1>1, GivenEndpoint

LEMMA FieldEndpoint ==
  ASSUME NEW s, NEW k, k # "remote_endpoint", NEW v
  PROVE  [s EXCEPT ![k] = v].remote_endpoint = s.remote_endpoint
OBVIOUS

LEMMA OptionsEndpoint ==
  ASSUME NEW s, NEW fields, "remote_endpoint" \notin fields, NEW options \in Options(fields)
  PROVE  Given(s, options).remote_endpoint = s.remote_endpoint
<1>1. PICK given \in SUBSET fields : options \in [given -> Texts]
  BY DEF Options
<1> QED
  BY <1>1, GivenEndpoint

LEMMA BreakEndpoint ==
  ASSUME NEW s, NEW t \in Break(s)
  PROVE  t.remote_endpoint = s.remote_endpoint
<1>1. PICK options \in BreakOptions : \E l, hits : t = Stopping(s, l, hits, options)
  BY DEF Break
<1>2. Given(s, options).remote_endpoint = s.remote_endpoint
  BY OptionsEndpoint, GivenEndpoint DEF BreakOptions
<1> QED
  BY <1>1, <1>2 DEF Stopping

LEMMA StepEndpoint ==
  ASSUME NEW s, NEW t \in Step(s)
  PROVE  t.remote_endpoint = s.remote_endpoint
<1>1. PICK options \in Options({"step_blacklist"}) : \E mode, ms : t = Stepping(s, mode, ms, options)
  BY DEF Step
<1>2. Given(s, options).remote_endpoint = s.remote_endpoint
  BY OptionsEndpoint
<1> QED
  BY <1>1, <1>2 DEF Stepping

\* No command but remote-config changes the endpoint.
LEMMA EffectsEndpoint ==
  ASSUME NEW s, NEW c, c # "remote-config", NEW t \in Effects(s, c)
  PROVE  t.remote_endpoint = s.remote_endpoint
<1> USE DEF Effects, Worked
<1>1. CASE c = "attach"
  <2>1. PICK p \in Pids : t = [s EXCEPT !.attached = TRUE, !.pid = p]
    BY <1>1 DEF Attach
  <2> QED
    BY ONLY <2>1
<1>2. CASE c = "detach"
  <2>1. t = [s EXCEPT !.attached = FALSE, !.pid = NoPid]
    BY <1>2 DEF Detach
  <2> QED
    BY ONLY <2>1
<1>3. CASE c = "eval" \/ c = "hbreak-data" \/ c = "setvar" \/ c = "mem-search" \/ c = "dylib-break"
  BY <1>3, SetTextEndpoint
<1>4. CASE c = "break"
  BY <1>4, BreakEndpoint
<1>5. CASE c = "step"
  BY <1>5, StepEndpoint
<1>6. CASE c = "vars"
  BY <1>6, SetTextEndpoint
<1>7. CASE c = "mem-edit"
  BY <1>7, SetTextEndpoint DEF MemEdit
<1>8. CASE c = "hbreak-exec"
  <2>1. PICK r \in Ranges : t = [s EXCEPT !.hw_exec = r]
    BY <1>8, Zenon
  <2> QED
    BY <2>1, FieldEndpoint
<1>9. CASE c = "stack"
  <2>1. t = s \/ \E n \in Frames : t = [s EXCEPT !.current_frame = n]
    BY <1>9, Zenon
  <2>2. ASSUME NEW n, t = [s EXCEPT !.current_frame = n]
        PROVE  t.remote_endpoint = s.remote_endpoint
    BY <2>2, FieldEndpoint
  <2> QED
    BY <2>1, <2>2
<1> QED
  BY <1>1, <1>2, <1>3, <1>4, <1>5, <1>6, <1>7, <1>8, <1>9

\* debug_remote.cfg holds an endpoint, if it is one that was configured.
Configured(e) == e \in Endpoints => cfg # Nothing /\ cfg.endpoint = e

\* Where no command was cut off between its two writes, the file of the
\* endpoint is right for what is remembered, or for what is about to be.
ConfigInv ==
  ~broken =>
    /\ stage \in {"idle", "loaded", "configuring"} => Configured(Remembered.remote_endpoint)
    /\ stage \in {"decided", "saving"} => Configured(st.remote_endpoint)

LEMMA ConfigStep ==
  ASSUME Default.remote_endpoint \notin Endpoints,
         DebugInv, ConfigInv, [DebugNext]_debugVars
  PROVE  ConfigInv'
<1> SUFFICES ASSUME ~broken' PROVE ConfigInv'
  BY DEF ConfigInv
<1>1. CASE UNCHANGED debugVars
  BY <1>1 DEF ConfigInv, Configured, Remembered, debugVars
<1>2. CASE Load \/ Fail \/ Inspect \/ OpenConfigFails
  BY <1>2 DEF Load, Fail, Inspect, OpenConfigFails, End, ConfigInv, Configured, Remembered
<1>3. CASE Work
  <2>1. /\ stage = "loaded" /\ st = Remembered /\ st' \in Effects(st, command)
        /\ UNCHANGED <<file, cfg, broken>>
        /\ stage' = IF command = "remote-config" THEN "configuring" ELSE "decided"
    BY <1>3 DEF Work, DebugInv, Remembered
  <2>2. Configured(Remembered.remote_endpoint)
    BY <2>1 DEF ConfigInv
  <2>3. CASE command = "remote-config"
    BY <2>1, <2>2, <2>3 DEF ConfigInv, Configured, Remembered
  <2>4. CASE command # "remote-config"
    <3>1. st'.remote_endpoint = Remembered.remote_endpoint
      BY <2>1, <2>4, EffectsEndpoint
    <3> QED
      BY <2>1, <2>2, <2>4, <3>1 DEF ConfigInv, Configured
  <2> QED
    BY <2>3, <2>4
<1>4. CASE OpenConfig
  BY <1>4 DEF OpenConfig, ConfigInv
<1>5. CASE CloseConfig
  <2>1. cfg'.endpoint = st.remote_endpoint /\ DOMAIN cfg' # {}
    BY <1>5 DEF CloseConfig
  <2>2. cfg' # Nothing
    BY <2>1 DEF Nothing
  <2> QED
    BY <1>5, <2>1, <2>2 DEF CloseConfig, ConfigInv, Configured
<1>6. CASE OpenState
  BY <1>6 DEF OpenState, ConfigInv, Configured
<1>7. CASE OpenStateFails
  BY <1>7 DEF OpenStateFails
<1>8. CASE CloseState
  <2>1. Configured(st.remote_endpoint) /\ file' = st /\ cfg' = cfg
    BY <1>8 DEF CloseState, ConfigInv
  <2>2. Remembered'.remote_endpoint \in {st.remote_endpoint, Default.remote_endpoint}
    BY <2>1, LoadedEndpoint DEF Remembered
  <2> QED
    BY <1>8, <2>1, <2>2 DEF CloseState, End, ConfigInv, Configured
<1>9. CASE Crash
  <2>1. stage \notin {"configured", "decided", "saving"} /\ UNCHANGED <<file, cfg>> /\ ~broken
    BY <1>9 DEF Crash
  <2>2. stage \in {"idle", "loaded", "configuring"}
    BY <2>1 DEF DebugInv
  <2> QED
    BY <1>9, <2>1, <2>2 DEF Crash, End, ConfigInv, Configured, Remembered
<1> QED
  BY <1>1, <1>2, <1>3, <1>4, <1>5, <1>6, <1>7, <1>8, <1>9 DEF DebugNext

\* The endpoint in debug_remote.cfg (remote_transport.c) is the one the session
\* remembers, unless a command was cut off between its writes, for endpoints
\* that differ from the default of main.c.
THEOREM EndpointsAlwaysAgree ==
  ASSUME Default.remote_endpoint \notin Endpoints
  PROVE  DebugSpec => []EndpointsAgree
<1>1. DebugInit => ConfigInv
  BY LoadedEndpoint DEF DebugInit, ConfigInv, Configured, Remembered
<1>2. DebugInv /\ ConfigInv /\ [DebugNext]_debugVars => ConfigInv'
  BY ConfigStep
<1>3. ConfigInv => EndpointsAgree
  BY DEF ConfigInv, Configured, EndpointsAgree
<1> QED
  BY <1>1, <1>2, <1>3, DebugInvariant, PTL DEF DebugSpec
=============================================================================
