---------------------------- MODULE EngineConfig ----------------------------
(***************************************************************************)
(* Engines and their features (asmkit_engine.c), and the decoder and       *)
(* encoder objects of the easy interface, which differ from a bare engine  *)
(* in how they are initialised (asmkit_easy.c).  A caller prepares a       *)
(* feature set and a configuration and makes an engine of it, again and    *)
(* again, into the same object.                                            *)
(***************************************************************************)
EXTENDS Integers, Sequences, FiniteSets, TLC

CONSTANTS
    Words, Bits,        \* a feature set is Words words of Bits bits
    Archs,              \* the architectures and modes callers ask for
    ArchModes,
    Cpus                \* the generated CPU table: [arch, cpu] to feature ids

AllArchs == {"x86", "arm", "aarch64", "bpf", "wasm"}
AllModes == {"default", "x86_16", "x86_32", "x86_64", "a32", "thumb", "a64",
             "bpf64", "wasm32", "wasm64"}

ASSUME EngineAssumption ==
    /\ Words \in Nat \ {0} /\ Bits \in Nat \ {0}
    /\ \A c \in DOMAIN Cpus : Cpus[c] \in Seq(Nat)
    /\ Archs \subseteq AllArchs /\ ArchModes \subseteq AllModes

VARIABLES
    fs,                 \* asmkit_feature_set_t: words
    config,             \* asmkit_engine_config_t
    engine,             \* asmkit_engine_t: a configuration and target_tables
    returned            \* the status of the last call

engineVars == <<fs, config, engine, returned>>

Capacity == Words * Bits
Ids      == 0..(Capacity - 1)
WordSets == [0..(Words - 1) -> SUBSET (0..(Bits - 1))]
NoWords  == [w \in 0..(Words - 1) |-> {}]
AllWords == [w \in 0..(Words - 1) |-> 0..(Bits - 1)]

\* The features whose bits are set.
IdsOf(words) == {f \in Ids : f % Bits \in words[f \div Bits]}

Configs == [arch: AllArchs, mode: AllModes, words: WordSets, flags: SUBSET {"EXPLICIT", "ALL"}]

NewConfig(arch, mode) == [arch |-> arch, mode |-> mode, words |-> NoWords, flags |-> {}]

Targets == {"x86_ops", "arm_ops", "aarch64_ops", "bpf_ops", "wasm_ops"}

\* target_tables of an object that holds no engine.
NoTarget == "none"
ZeroEngine == [config |-> NewConfig("x86", "default"), ops |-> NoTarget]

EngineTypeOK ==
    /\ fs \in WordSets
    /\ config \in Configs
    /\ engine \in [config: Configs, ops: Targets \cup {NoTarget}]
    /\ returned \in {"OK", "UNSUPPORTED_FEATURE", "UNSUPPORTED_MODE",
                     "UNSUPPORTED_TARGET_OPERATION"}

-----------------------------------------------------------------------------
DefaultMode(arch) ==
    CASE arch = "x86" -> "x86_64" [] arch = "arm" -> "a32" [] arch = "aarch64" -> "a64"
      [] arch = "bpf" -> "bpf64" [] arch = "wasm" -> "wasm32"

\* The range of modes of each operation table.
OpsOf(arch, mode) ==
    CASE arch = "x86" /\ mode \in {"x86_16", "x86_32", "x86_64"} -> "x86_ops"
      [] arch = "arm" /\ mode \in {"a32", "thumb"} -> "arm_ops"
      [] arch = "aarch64" /\ mode = "a64" -> "aarch64_ops"
      [] arch = "bpf" /\ mode = "bpf64" -> "bpf_ops"
      [] arch = "wasm" /\ mode \in {"wasm32", "wasm64"} -> "wasm_ops"
      [] OTHER -> NoTarget

\* asmkit_engine_feature_word: what decoders and encoders consult.
FeatureWord(c, w) == IF "ALL" \in c.flags THEN 0..(Bits - 1) ELSE c.words[w]
FeaturesOf(c)     == IdsOf([w \in 0..(Words - 1) |-> FeatureWord(c, w)])

-----------------------------------------------------------------------------
(***************************************************************************)
(* Feature sets.                                                           *)
(***************************************************************************)
\* Mutant of SetBit: the bit is not taken modulo the width of a word.
SetBitWide(words, f) == [words EXCEPT ![f \div Bits] = @ \cup {f}]

SetBit(words, f)   == [words EXCEPT ![f \div Bits] = @ \cup {f % Bits}]
ClearBit(words, f) == [words EXCEPT ![f \div Bits] = @ \ {f % Bits}]

FeatureSetClear ==
    /\ fs' = NoWords /\ returned' = "OK"
    /\ UNCHANGED <<config, engine>>

FeatureSetFill ==
    /\ fs' = AllWords /\ returned' = "OK"
    /\ UNCHANGED <<config, engine>>

FeatureSetEnable(f) ==
    /\ fs' = IF f \in Ids THEN SetBit(fs, f) ELSE fs
    /\ returned' = IF f \in Ids THEN "OK" ELSE "UNSUPPORTED_FEATURE"
    /\ UNCHANGED <<config, engine>>

FeatureSetDisable(f) ==
    /\ fs' = IF f \in Ids THEN ClearBit(fs, f) ELSE fs
    /\ returned' = IF f \in Ids THEN "OK" ELSE "UNSUPPORTED_FEATURE"
    /\ UNCHANGED <<config, engine>>

\* asmkit_feature_set_from_cpu: a feature that does not fit clears the set.
CpuWords(key) ==
    LET ids == {Cpus[key][n] : n \in 1..Len(Cpus[key])}
    IN  IF ids \subseteq Ids
        THEN [w \in 0..(Words - 1) |-> {f % Bits : f \in {g \in ids : g \div Bits = w}}]
        ELSE NoWords

CpuStatus(key) ==
    IF key \notin DOMAIN Cpus THEN "UNSUPPORTED_TARGET_OPERATION"
    ELSE IF \A n \in 1..Len(Cpus[key]) : Cpus[key][n] \in Ids THEN "OK"
    ELSE "UNSUPPORTED_FEATURE"

FeatureSetFromCpu(key) ==
    /\ fs' = IF key \in DOMAIN Cpus THEN CpuWords(key) ELSE fs
    /\ returned' = CpuStatus(key)
    /\ UNCHANGED <<config, engine>>

-----------------------------------------------------------------------------
(***************************************************************************)
(* Configurations.                                                         *)
(***************************************************************************)
ConfigInit(arch, mode) ==
    /\ config' = NewConfig(arch, mode) /\ returned' = "OK"
    /\ UNCHANGED <<fs, engine>>

WithFeatures(c, words) ==
    [c EXCEPT !.words = words, !.flags = (@ \cup {"EXPLICIT"}) \ {"ALL"}]

\* Mutant of SetFeatures: the features are not marked as explicit.
SetFeaturesUnmarked ==
    /\ config' = [config EXCEPT !.words = fs, !.flags = @ \ {"ALL"}] /\ returned' = "OK"
    /\ UNCHANGED <<fs, engine>>

SetFeatures ==
    /\ config' = WithFeatures(config, fs) /\ returned' = "OK"
    /\ UNCHANGED <<fs, engine>>

\* What asmkit_engine_config_get_features reads.
Stored(c) == IF "ALL" \in c.flags THEN AllWords ELSE c.words

GetFeatures ==
    /\ fs' = Stored(config) /\ returned' = "OK"
    /\ UNCHANGED <<config, engine>>

\* Mutant of EnableFeature: the features are not marked as explicit.
EnableFeatureUnmarked(f) ==
    /\ config' = IF f \in Ids THEN [config EXCEPT !.words = SetBit(@, f)] ELSE config
    /\ returned' = IF f \in Ids THEN "OK" ELSE "UNSUPPORTED_FEATURE"
    /\ UNCHANGED <<fs, engine>>

EnableFeature(f) ==
    /\ config' = IF f \in Ids THEN WithFeatures(config, SetBit(config.words, f)) ELSE config
    /\ returned' = IF f \in Ids THEN "OK" ELSE "UNSUPPORTED_FEATURE"
    /\ UNCHANGED <<fs, engine>>

\* The architecture need not be that of the configuration.
EnableCpuFeatures(key) ==
    /\ config' = IF CpuStatus(key) = "OK" THEN WithFeatures(config, CpuWords(key)) ELSE config
    /\ returned' = CpuStatus(key)
    /\ UNCHANGED <<fs, engine>>

EnableAllFeatures ==
    /\ config' = [config EXCEPT !.words = AllWords, !.flags = (@ \cup {"ALL"}) \ {"EXPLICIT"}]
    /\ returned' = "OK"
    /\ UNCHANGED <<fs, engine>>

\* A caller makes another configuration from that of an engine.
CopyConfig ==
    /\ engine.ops # NoTarget
    /\ config' = engine.config
    /\ UNCHANGED <<fs, engine, returned>>

-----------------------------------------------------------------------------
(***************************************************************************)
(* Engines.                                                                *)
(***************************************************************************)
Resolved(c) ==
    LET m == IF c.mode = "default" THEN DefaultMode(c.arch) ELSE c.mode
    IN  IF "ALL" \in c.flags \/ "EXPLICIT" \notin c.flags
        THEN [c EXCEPT !.mode = m, !.words = AllWords, !.flags = @ \cup {"ALL"}]
        ELSE [c EXCEPT !.mode = m]

\* asmkit_engine_init into an object that holds `old': nothing is assigned
\* unless the target is known.
Initialised(old) ==
    LET c == Resolved(config)
    IN  IF OpsOf(c.arch, c.mode) = NoTarget THEN old
        ELSE [config |-> c, ops |-> OpsOf(c.arch, c.mode)]

InitStatus == IF OpsOf(config.arch, Resolved(config).mode) = NoTarget
              THEN "UNSUPPORTED_MODE" ELSE "OK"

EngineInit ==
    /\ engine' = Initialised(engine)
    /\ returned' = InitStatus
    /\ UNCHANGED <<fs, config>>

\* asmkit_decoder_init_ex and asmkit_encoder_init_ex clear the object first.
DecoderInit ==
    /\ engine' = Initialised(ZeroEngine)
    /\ returned' = InitStatus
    /\ UNCHANGED <<fs, config>>

EngineStart ==
    /\ fs = NoWords
    /\ config \in {NewConfig(a, m) : a \in Archs, m \in ArchModes}
    /\ engine = ZeroEngine
    /\ returned = "OK"

EngineNext ==
    \/ FeatureSetClear \/ FeatureSetFill \/ GetFeatures \/ SetFeatures
    \/ EnableAllFeatures \/ CopyConfig \/ EngineInit \/ DecoderInit
    \/ \E f \in 0..Capacity : FeatureSetEnable(f) \/ FeatureSetDisable(f) \/ EnableFeature(f)
    \/ \E a \in Archs, n \in 0..2 : FeatureSetFromCpu(<<a, n>>) \/ EnableCpuFeatures(<<a, n>>)
    \/ \E a \in Archs, m \in ArchModes : ConfigInit(a, m)

EngineSpec == EngineStart /\ [][EngineNext]_engineVars

-----------------------------------------------------------------------------
(***************************************************************************)
(* Properties.                                                             *)
(***************************************************************************)
IsDefault(c) == c.flags = {} /\ c.words = NoWords

\* An engine has exactly the features the calls on its configuration have
\* supplied, in whatever order they were made, or all of them if there was no
\* such call; nothing done to the configuration later changes it.
Promise == INSTANCE FeatureOracle WITH
    Features <- Ids,
    wanted   <- IF IsDefault(config) THEN <<>> ELSE <<FeaturesOf(config)>>,
    has      <- IF engine.ops = NoTarget THEN <<>> ELSE <<FeaturesOf(engine.config)>>

ImplementsPromise == Promise!Spec

\* The operations an engine dispatches to are those for its own mode: also
\* after a failed attempt to make it an engine for something else.
DispatchFits ==
    engine.ops # NoTarget => engine.ops = OpsOf(engine.config.arch, engine.config.mode)

\* The features read back from a configuration and set on it again make the
\* same engine, whatever calls were made on it before, with one exception: the
\* set of a configuration that was not given any features reads as empty, and
\* setting that turns an engine with every feature into one with none.
ReadBack ==
    FeaturesOf(Resolved(WithFeatures(config, Stored(config))))
        = IF IsDefault(config) THEN {} ELSE FeaturesOf(Resolved(config))
=============================================================================
