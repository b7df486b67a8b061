----------------------------- MODULE ValueTrack -----------------------------
(***************************************************************************)
(* What the value analysis is for: a client that follows a program         *)
(* instruction by instruction, keeps the values of registers and memory it *)
(* can derive from the effects reported, and predicts branches from the    *)
(* comparison reported last; and a processor that executes the program.    *)
(* Neither is part of AsmKit.  The client reads an analysis this way:      *)
(*   - effects take place in their order; the operands of a condition are  *)
(*     those before the instruction;                                       *)
(*   - an extension extends what the instruction has just copied or loaded;*)
(*   - an operand that is written and that no effect names is not known    *)
(*     any more, nor is anything written under a condition;                *)
(*   - a condition both defined and consumed concerns its branch only.     *)
(***************************************************************************)
EXTENDS Values, FiniteSets

CONSTANTS
    Forms,          \* the instructions, with what the architecture says of them
    Starts,         \* where a program may start: [engine, regs, cells]
    BitsOf,         \* the bits kept of each width
    MaxSteps,       \* the length of the programs
    Unknown         \* no value

VARIABLES
    engine,         \* the architecture and mode
    steps,          \* instructions executed
    regs, cells,    \* the processor: registers, memory
    flags,          \* and its flags
    know, kcells,   \* what the client knows of registers and of memory
    compared,       \* the comparison the flags are known to hold
    forgot,         \* the client has had reason to forget something
    verdict         \* what was predicted of the last branch, and what it did

trackVars == <<engine, steps, regs, cells, flags, know, kcells, compared, forgot, verdict>>

(***************************************************************************)
(* A form: the instruction and its control analysis as AsmKit has them;    *)
(* and of the architecture:                                                *)
(*    does     an operation, "branch", "test" (a branch on a register),    *)
(*             "table" or "opaque" (an operation the analysis does not     *)
(*             describe, here one that increments)                         *)
(*    dst      the operand written, -1 for none                            *)
(*    srcs     the operands it takes                                       *)
(*    signed   whether a narrower source is sign extended                  *)
(*    sets     the flags: "none", "compared" (of the sources) or "other"   *)
(*    on       the condition of a branch or of a predicated instruction    *)
(*    width    the width of what it works on, and of its immediates        *)
(*    entry    the bits of an entry of its table                           *)
(*    real     the address it names                                        *)
(*    vague    whether its result is not described, or not always          *)
(***************************************************************************)
NoComparison == [left |-> Unknown, right |-> Unknown, bits |-> 0]
NoVerdict    == [predicted |-> Unknown, real |-> Unknown]

Top == 2 ^ BitsOf[64]

Families == UNION {DOMAIN s.regs : s \in Starts}
Places   == UNION {DOMAIN s.cells : s \in Starts}

ASSUME UnknownAssumption == Unknown \notin Int
ASSUME BitsAssumption ==
    /\ BitsOf \in [{8, 16, 32, 64} -> Nat \ {0}]
    /\ \A v, w \in DOMAIN BitsOf : v <= w => BitsOf[v] <= BitsOf[w]
ASSUME StartsAssumption ==
    \A s \in Starts : /\ s.regs \in [Families -> 0..(Top - 1)]
                      /\ s.cells \in [Places -> 0..(Top - 1)]
ASSUME StepsAssumption == MaxSteps \in Nat

TrackTypeOK ==
    /\ engine \in {s.engine : s \in Starts}
    /\ steps \in 0..MaxSteps
    /\ regs \in [Families -> 0..(Top - 1)] /\ cells \in [Places -> 0..(Top - 1)]
    /\ flags \in [z: BOOLEAN, n: BOOLEAN, c: BOOLEAN, v: BOOLEAN]
    /\ know \in [Families -> {Unknown} \cup 0..(Top - 1)]
    /\ kcells \in [Places -> {Unknown} \cup 0..(Top - 1)]
    /\ {compared.left, compared.right} \subseteq {Unknown} \cup 0..(Top - 1)
    /\ forgot \in BOOLEAN
    /\ {verdict.predicted, verdict.real} \subseteq {Unknown} \cup Int

TrackInit ==
    /\ \E s \in Starts :
          /\ engine = s.engine
          /\ regs = s.regs /\ cells = s.cells
          /\ know = s.regs /\ kcells = s.cells
    /\ flags \in [z: BOOLEAN, n: {FALSE}, c: BOOLEAN, v: {FALSE}]
    /\ steps = 0
    /\ compared = NoComparison /\ forgot = FALSE /\ verdict = NoVerdict

-----------------------------------------------------------------------------
(***************************************************************************)
(* Arithmetic on values of some bits.                                      *)
(***************************************************************************)
Low(x, bits)    == x % (2 ^ bits)
Neg(x, bits)    == x >= 2 ^ (bits - 1)
Signed(x, bits) == IF Neg(x, bits) THEN x - 2 ^ bits ELSE x
BitAt(x, n)     == (x \div (2 ^ n)) % 2

\* A bit of the result, by how many of the two bits are set.
Both   == [ones \in 0..2 |-> IF ones = 2 THEN 1 ELSE 0]
Either == [ones \in 0..2 |-> IF ones = 0 THEN 0 ELSE 1]
Differ == [ones \in 0..2 |-> IF ones = 1 THEN 1 ELSE 0]

BitByBit(bit, x, y, bits) ==
    LET sum[n \in 0..bits] ==
            IF n = 0 THEN 0
            ELSE sum[n - 1] + bit[BitAt(x, n - 1) + BitAt(y, n - 1)] * 2 ^ (n - 1)
    IN  sum[bits]

Extended(x, from, to, signed) ==
    Low(IF signed THEN Signed(Low(x, from), from) ELSE Low(x, from), to)

Rotated(x, n, bits) == Low(x * 2 ^ n, bits) + (x \div 2 ^ (bits - n))

Compute(kind, x, y, bits) ==
    CASE kind = "ADD" -> Low(x + y, bits)
      [] kind = "SUB" -> Low(x - y, bits)
      [] kind = "MUL" -> Low(x * y, bits)
      [] kind = "AND" -> BitByBit(Both, x, y, bits)
      [] kind = "OR"  -> BitByBit(Either, x, y, bits)
      [] kind = "XOR" -> BitByBit(Differ, x, y, bits)
      [] kind = "SHIFT_LEFT" -> Low(x * 2 ^ y, bits)
      [] kind = "SHIFT_RIGHT_LOGICAL" -> x \div 2 ^ y
      [] kind = "SHIFT_RIGHT_ARITHMETIC" -> Low(Signed(x, bits) \div 2 ^ y, bits)
      [] kind = "ROTATE_LEFT"  -> Rotated(x, y % bits, bits)
      [] kind = "ROTATE_RIGHT" -> Rotated(x, bits - (y % bits), bits)

Operations == {"ADD", "SUB", "MUL", "AND", "OR", "XOR", "SHIFT_LEFT", "SHIFT_RIGHT_LOGICAL",
               "SHIFT_RIGHT_ARITHMETIC", "ROTATE_LEFT", "ROTATE_RIGHT"}

\* A register written through one of its names: 8 and 16 bits keep the rest,
\* 32 bits clear it; the zero register stays zero.
Merge(old, reg, v) ==
    IF reg.fam = "zero" THEN 0
    ELSE IF reg.width >= 32 THEN v
    ELSE (old - Low(old, BitsOf[reg.width])) + v

-----------------------------------------------------------------------------
(***************************************************************************)
(* The processor.                                                          *)
(***************************************************************************)
Op(p, n) == p.inst.ops[n + 1]

\* The width an operand is used at: an immediate takes that of its partner.
Bits(p, n) == IF Op(p, n).kind = "imm" \/ Op(p, n).width = 0 THEN BitsOf[p.width]
              ELSE BitsOf[Op(p, n).width]

Fetch(p, n) ==
    CASE Op(p, n).kind = "reg" -> Low(regs[Op(p, n).reg.fam], Bits(p, n))
      [] Op(p, n).kind = "mem" -> Low(cells[Op(p, n).cell], Bits(p, n))
      [] OTHER -> Low(Op(p, n).imm, Bits(p, n))

\* x86 borrows; in the ARM architectures a carry out is the absence of a borrow.
FlagsOfDifference(arch, x, y, bits) ==
    LET d == Signed(x, bits) - Signed(y, bits)
    IN  [z |-> x = y, n |-> Neg(Low(x - y, bits), bits),
         c |-> IF arch = "x86" THEN x < y ELSE x >= y,
         v |-> d < -(2 ^ (bits - 1)) \/ d >= 2 ^ (bits - 1)]

\* The conditions, by their x86 and ARM names.
Holds(on, f) ==
    CASE on = "always" -> TRUE
      [] on \in {"je", "eq"}  -> f.z          [] on \in {"jne", "ne"} -> ~f.z
      [] on \in {"js", "mi"}  -> f.n          [] on \in {"jg", "gt"}  -> ~f.z /\ f.n = f.v
      [] on \in {"jge", "ge"} -> f.n = f.v    [] on \in {"jl", "lt"}  -> f.n # f.v
      [] on \in {"jle", "le"} -> f.z \/ f.n # f.v
      [] on \in {"jb", "hs"}  -> f.c          [] on \in {"jae", "lo"} -> ~f.c
      [] on = "ja" -> ~f.c /\ ~f.z            [] on = "jbe" -> f.c \/ f.z
      [] on = "hi" -> f.c /\ ~f.z             [] on = "ls"  -> ~f.c \/ f.z

Result(p) ==
    LET to == Bits(p, p.dst)
        x  == Fetch(p, p.srcs[1])
    IN  CASE p.does \in Operations -> Compute(p.does, x, Fetch(p, p.srcs[2]), to)
          [] p.does = "move"   -> Extended(x, Bits(p, p.srcs[1]), to, p.signed)
          [] p.does = "name"   -> Low(p.real, to)
          [] p.does = "opaque" -> Low(x + 1, to)

\* Registers and memory behind the instruction.
Written(p) ==
    LET o == Op(p, p.dst)
    IN  IF p.dst < 0 THEN [regs |-> regs, cells |-> cells]
        ELSE IF o.kind = "reg"
        THEN [regs  |-> [regs EXCEPT ![o.reg.fam] = Merge(@, o.reg, Result(p))],
              cells |-> cells]
        ELSE [regs  |-> regs,
              cells |-> [cells EXCEPT ![o.cell] =
                            (@ - Low(@, Bits(p, p.dst))) + Result(p)]]

\* What a branch does: 1 if it is taken; the address a table branch goes to.
Outcome(p) ==
    CASE p.does = "branch" -> IF Holds(p.on, flags) THEN 1 ELSE 0
      [] p.does = "test"   -> IF (Fetch(p, 0) = 0) = (p.on = "zero") THEN 1 ELSE 0
      [] p.does = "table"  -> p.inst.addr + 5 + 2 * Low(cells[Op(p, 0).cell], p.entry)
      [] OTHER -> Unknown

-----------------------------------------------------------------------------
(***************************************************************************)
(* The client.                                                             *)
(***************************************************************************)
Known(xs) == \A n \in 1..Len(xs) : xs[n] # Unknown

LowIf(x, w) == IF x = Unknown \/ w = 0 THEN Unknown ELSE Low(x, BitsOf[w])

\* The value of a reference, at its own width; e holds what is known, the
\* temporaries of the instruction, and the width last copied.
Seen(p, e, r) ==
    CASE r.kind = "immediate" -> r.imm
      [] r.kind = "temporary" -> e.temps[r.index]
      [] r.kind = "operand" ->
            (CASE Op(p, r.index).kind = "reg" -> LowIf(e.know[r.reg.fam], r.width)
               [] Op(p, r.index).kind = "mem" -> LowIf(e.cells[Op(p, r.index).cell], r.width)
               [] OTHER -> r.imm)
      [] OTHER -> Unknown

MergeIf(old, reg, v) ==
    IF v = Unknown \/ (old = Unknown /\ reg.width < 32) THEN Unknown
    ELSE Merge(old, reg, v)

Learn(p, e, r, v) ==
    CASE r.kind = "temporary" -> [e EXCEPT !.temps[r.index] = v]
      [] r.kind = "target"    -> [e EXCEPT !.target = v]
      [] r.kind = "operand" ->
            (IF Op(p, r.index).kind = "reg"
             THEN [e EXCEPT !.know[r.reg.fam] = MergeIf(@, r.reg, v),
                            !.named = @ \cup {r.index}]
             ELSE [e EXCEPT !.cells[Op(p, r.index).cell] =
                        IF v = Unknown \/ r.width = 0 \/ @ = Unknown THEN Unknown
                        ELSE (@ - Low(@, BitsOf[r.width])) + Low(v, BitsOf[r.width]),
                            !.named = @ \cup {r.index}])
      [] OTHER -> e

\* A load into a temporary is as wide as the temporary.
Loaded(p, e, f) ==
    LET r == f.srcs[1]
    IN  IF f.dst.kind = "temporary"
        THEN LowIf(e.cells[Op(p, r.index).cell], f.dst.width)
        ELSE Seen(p, e, r)

\* The bits of what an effect sets; 16 are enough for the addresses here.
BitsSet(f) ==
    IF f.dst.kind = "target" THEN 16 ELSE IF f.dst.width = 0 THEN 0 ELSE BitsOf[f.dst.width]

LowTo(v, bits) == IF v = Unknown THEN v ELSE Low(v, bits)

\* The value an effect gives.
Given(p, e, f) ==
    LET vs == [n \in 1..Len(f.srcs) |-> Seen(p, e, f.srcs[n])]
    IN  CASE f.kind = "LOAD"  -> LowTo(Loaded(p, e, f), BitsSet(f))
          [] f.kind = "STORE" -> vs[1]
          [] f.kind = "COPY"  -> LowTo(vs[1], BitsSet(f))
          [] f.kind = "ADDRESS" ->
                (IF f.srcs[1].kind = "immediate" THEN Low(vs[1], BitsSet(f)) ELSE Unknown)
          [] f.kind \in {"SIGN_EXTEND", "ZERO_EXTEND"} ->
                (IF ~Known(vs) THEN Unknown
                 ELSE IF f.srcs[1].kind = "temporary" THEN vs[1]
                 ELSE Extended(vs[1], BitsOf[e.copied], BitsSet(f), f.kind = "SIGN_EXTEND"))
          [] f.kind \in Operations ->
                (IF Known(vs) THEN Compute(f.kind, vs[1], vs[2], BitsSet(f)) ELSE Unknown)

Follow(p, e, f) ==
    LET learned == Learn(p, e, f.dst, Given(p, e, f))
    IN  IF f.dst.kind = "none" \/ f.srcs = <<>> THEN e
        ELSE IF f.kind \in {"LOAD", "COPY"} THEN [learned EXCEPT !.copied = f.srcs[1].width]
        ELSE learned

Start == [know |-> know, cells |-> kcells, temps |-> [n \in 0..2 |-> Unknown],
          target |-> Unknown, copied |-> 0, named |-> {}]

Effected(p, effects) ==
    LET after[n \in 0..Len(effects)] ==
            IF n = 0 THEN Start ELSE Follow(p, after[n - 1], effects[n])
    IN  after[Len(effects)]

\* What is written and not named, or under a condition, is not known any more.
Lost(p, e) == {n \in Indices(p.inst) : "write" \in Op(p, n).flags /\ n \notin e.named}

Kept(p, old, new) == IF p.control.predicate = Always \/ old = new THEN new ELSE Unknown

Believed(p, told) ==
    LET end  == Effected(p, told.effects)
        lost == Lost(p, end)
    IN  [end EXCEPT
            !.know = [f \in DOMAIN know |->
                        IF \E n \in lost : Op(p, n).kind = "reg" /\ Op(p, n).reg.fam = f
                        THEN Unknown ELSE Kept(p, know[f], end.know[f])],
            !.cells = [c \in DOMAIN kcells |->
                        IF \E n \in lost : Op(p, n).kind = "mem" /\ Op(p, n).cell = c
                        THEN Unknown ELSE Kept(p, kcells[c], end.cells[c])]]

\* The comparison a condition describes, of values before the instruction.
Described(p, c) ==
    LET e == [know |-> know, cells |-> kcells, temps |-> <<>>]
        w == c.left.width
        l == Seen(p, e, c.left)
        r == Seen(p, e, c.right)
    IN  IF c.left.kind = "none" \/ l = Unknown \/ r = Unknown \/ w = 0 THEN NoComparison
        ELSE [left |-> l, right |-> Low(r, BitsOf[w]), bits |-> BitsOf[w]]

Relates(relation, c) ==
    LET l == Signed(c.left, c.bits)
        r == Signed(c.right, c.bits)
    IN  CASE relation = "EQ"  -> l = r               [] relation = "NE"  -> l # r
          [] relation = "ULT" -> c.left < c.right    [] relation = "ULE" -> c.left <= c.right
          [] relation = "UGT" -> c.left > c.right    [] relation = "UGE" -> c.left >= c.right
          [] relation = "SLT" -> l < r               [] relation = "SLE" -> l <= r
          [] relation = "SGT" -> l > r               [] relation = "SGE" -> l >= r

Predicted(p, told, target) ==
    LET c == IF told.condition.defines THEN Described(p, told.condition) ELSE compared
    IN  IF told.condition.consumes
        THEN IF c = NoComparison \/ told.condition.relation = "none" THEN Unknown
             ELSE IF Relates(told.condition.relation, c) THEN 1 ELSE 0
        ELSE target

\* A comparison made under a condition tells nothing.
Remembered(p, told) ==
    IF ~told.condition.defines \/ told.condition.consumes THEN compared
    ELSE IF p.control.predicate # Always THEN NoComparison
    ELSE Described(p, told.condition)

-----------------------------------------------------------------------------
(***************************************************************************)
(* The forms: what the manuals say of the instructions a program may be    *)
(* made of.  Left out are those the analysis is known to report wrongly:   *)
(* shifted operands, test, movn, ARM instructions that set the flags,      *)
(* ldrsb and ldrsh of ARM, tbz and tbnz, unaligned table branches.         *)
(***************************************************************************)
Arch(p) == p.inst.arch
Mn(p)   == p.inst.mn

OperandOK(o) ==
    /\ o.kind \in {"reg", "mem", "imm", "pcrel"} /\ o.imm \in Int
    /\ o.kind = "reg" => /\ o.reg \in [fam: Families, width: DOMAIN BitsOf]
                         /\ o.width = o.reg.width
    /\ o.kind = "mem" => o.cell \in Places /\ o.width \in {0} \cup DOMAIN BitsOf

\* The mnemonics of an operation.
NamesOf ==
    [ADD |-> {"add", "addw"}, SUB |-> {"sub", "subw"}, MUL |-> {"imul", "mul"},
     AND |-> {"and"}, OR |-> {"or", "orr"}, XOR |-> {"xor", "eor"},
     SHIFT_LEFT |-> {"shl", "lsl", "sll"}, SHIFT_RIGHT_LOGICAL |-> {"shr", "lsr", "srl"},
     SHIFT_RIGHT_ARITHMETIC |-> {"sar", "asr", "arsh"},
     ROTATE_LEFT |-> {"rol"}, ROTATE_RIGHT |-> {"ror"}]

Shifts == {"SHIFT_LEFT", "SHIFT_RIGHT_LOGICAL", "SHIFT_RIGHT_ARITHMETIC",
           "ROTATE_LEFT", "ROTATE_RIGHT"}

\* The mnemonics the analysis has something to say of.
Operators(arch) ==
    CASE arch = "x86" -> DOMAIN X86Binary         [] arch = "arm" -> DOMAIN ArmBinary
      [] arch = "aarch64" -> DOMAIN A64Binary     [] arch = "bpf" -> DOMAIN BpfBinary

Special(arch) ==
    CASE arch = "x86" -> {"mov", "movsx", "movsxd", "movzx", "lea", "cmp", "test"}
      [] arch = "arm" -> {"mov", "movs", "adr", "tbb", "tbh", "cmp", "cbz", "cbnz"}
      [] arch = "aarch64" -> {"mov", "movz", "movn", "adr", "adrp", "ldrsw", "ldrsh", "ldrsb",
                              "cbz", "cbnz", "tbz", "tbnz"}
      [] arch = "bpf" -> {"mov"}

Plain(p)   == Mn(p) \notin Operators(Arch(p)) \cup Special(Arch(p))
Touches(p) == p.inst.cls \in {"load", "store"}

\* The only operand written is the destination.
Writes(p, n) ==
    /\ p.dst = n /\ n \in Indices(p.inst)
    /\ \A k \in Indices(p.inst) : "write" \in Op(p, k).flags => k = n
    /\ n = 0 \/ "write" \in Op(p, n).flags

IsReg(p, n) == n \in Indices(p.inst) /\ Op(p, n).kind = "reg"
IsMem(p, n) == n \in Indices(p.inst) /\ Op(p, n).kind = "mem"
IsImm(p, n) == n \in Indices(p.inst) /\ Op(p, n).kind = "imm"

Operates(p) ==
    /\ p.does \in Operations /\ Mn(p) \in Operators(Arch(p)) \cap NamesOf[p.does] /\ ~Touches(p)
    /\ Writes(p, 0) /\ Len(p.inst.ops) \in {2, 3}
    /\ p.srcs = (IF Len(p.inst.ops) = 2 THEN <<0, 1>> ELSE <<1, 2>>)
    /\ \A n \in {0, p.srcs[1]} : (IsReg(p, n) \/ IsMem(p, n)) /\ Op(p, n).width = p.width
    /\ LET n == p.srcs[2]
       IN  \/ IsReg(p, n) \/ IsMem(p, n)
           \/ IsImm(p, n) /\ (p.does \in Shifts => Op(p, n).imm \in 0..(2 ^ BitsOf[p.width] - 1))

\* From a register or an immediate to a register.
Copies(p) ==
    /\ <<Arch(p), Mn(p)>> \in {<<"x86", "mov">>, <<"arm", "mov">>, <<"aarch64", "mov">>,
                               <<"aarch64", "movz">>, <<"bpf", "mov">>}
    /\ p.does = "move" /\ ~p.signed /\ ~Touches(p)
    /\ Writes(p, 0) /\ IsReg(p, 0) /\ p.srcs = <<1>> /\ Op(p, 0).width = p.width
    /\ IsReg(p, 1) \/ IsImm(p, 1)
    /\ \A n \in Indices(p.inst) \ {0, 1} : IsImm(p, n) /\ Op(p, n).imm = 0

\* The extensions of x86.
Widens(p) ==
    /\ Arch(p) = "x86" /\ Mn(p) \in {"movsx", "movsxd", "movzx"} /\ p.inst.cls # "store"
    /\ p.does = "move" /\ p.signed = (Mn(p) # "movzx")
    /\ Writes(p, 0) /\ IsReg(p, 0) /\ p.srcs = <<1>> /\ Len(p.inst.ops) = 2
    /\ IsReg(p, 1) \/ IsMem(p, 1)
    /\ Op(p, 1).width <= Op(p, 0).width

Loads(p) ==
    /\ p.does = "move" /\ p.srcs = <<1>> /\ Len(p.inst.ops) = 2
    /\ Writes(p, 0) /\ IsReg(p, 0) /\ IsMem(p, 1)
    /\ \/ Arch(p) = "x86" /\ Mn(p) = "mov" /\ p.inst.cls # "store" /\ ~p.signed
       \/ Plain(p) /\ p.inst.cls = "load" /\ ~p.signed
       \/ /\ Arch(p) = "aarch64" /\ Mn(p) \in {"ldrsw", "ldrsh", "ldrsb"}
          /\ p.inst.cls = "load" /\ p.signed /\ Op(p, 1).width <= Op(p, 0).width

Stores(p) ==
    /\ \/ Arch(p) = "x86" /\ Mn(p) = "mov"
       \/ Plain(p) /\ p.inst.cls = "store"
    /\ p.does = "move" /\ ~p.signed /\ Len(p.inst.ops) = 2
    /\ \E m \in {0, 1} :
          /\ Writes(p, m) /\ IsMem(p, m) /\ p.srcs = <<1 - m>>
          /\ m = 1 => "read" \in Op(p, 0).flags
          /\ \/ IsReg(p, 1 - m)
             \/ IsImm(p, 1 - m) /\ p.width = Op(p, m).width

NamesAddress(p) ==
    /\ \/ Arch(p) = "x86" /\ Mn(p) = "lea" /\ p.control.pcrel
       \/ Arch(p) = "arm" /\ (Mn(p) = "adr" \/ (p.control.material /\ Plain(p)))
       \/ Arch(p) = "aarch64" /\ (Mn(p) \in {"adr", "adrp"} \/ (p.control.material /\ Plain(p)))
    /\ p.does = "name" /\ p.real = p.control.target /\ p.real \in Int
    /\ ~Touches(p) /\ Writes(p, 0) /\ IsReg(p, 0)

\* What is not described.
Alters(p) ==
    /\ \/ Plain(p)
       \/ Arch(p) = "x86" /\ Mn(p) = "lea" /\ ~p.control.pcrel /\ Writes(p, 0) /\ IsReg(p, 0)
    /\ p.does = "opaque" /\ ~Touches(p) /\ p.vague
    /\ IsReg(p, p.dst) \/ IsMem(p, p.dst)
    /\ "write" \in Op(p, p.dst).flags
    /\ p.srcs[1] \in Indices(p.inst) /\ Op(p, p.srcs[1]).kind # "pcrel"

\* What changes neither registers nor memory.
Keeps(p) ==
    /\ p.dst = -1
    /\ ~Touches(p) \/ \A n \in Indices(p.inst) : ~IsMem(p, n)
    /\ \/ Plain(p) /\ p.does \in {"none", "branch"}
       \/ Arch(p) \in {"x86", "arm"} /\ Mn(p) = "cmp" /\ p.does = "none"
       \/ /\ Arch(p) \in {"arm", "aarch64"} /\ Mn(p) \in {"cbz", "cbnz"} /\ p.does = "test"
          /\ p.on = (IF Mn(p) = "cbz" THEN "zero" ELSE "nonzero") /\ IsReg(p, 0)
       \/ /\ Arch(p) = "arm" /\ p.does = "table" /\ IsMem(p, 0) /\ ~p.control.cond
          /\ <<Mn(p), p.entry>> \in {<<"tbb", BitsOf[8]>>, <<"tbh", BitsOf[16]>>}
          /\ p.inst.addr \in Nat /\ p.inst.addr % 4 = 0
          /\ 2 ^ p.entry <= 2 ^ (BitsOf[32] - 1)
          /\ p.inst.addr + 5 + 2 * 2 ^ p.entry <= 2 ^ 16

\* The flags, and the conditions that test them.
ConditionNames ==
    {<<0, "eq">>, <<1, "ne">>, <<2, "hs">>, <<3, "lo">>, <<8, "hi">>, <<9, "ls">>,
     <<10, "ge">>, <<11, "lt">>, <<12, "gt">>, <<13, "le">>}

Compares(p) ==
    /\ p.srcs = <<0, 1>> /\ Len(p.inst.ops) = 2 /\ p.width \in DOMAIN BitsOf
    /\ (IsReg(p, 0) \/ IsMem(p, 0)) /\ Op(p, 0).width = p.width
    /\ IsImm(p, 1) \/ ((IsReg(p, 1) \/ IsMem(p, 1)) /\ Op(p, 1).width = p.width)

FlagsOK(p) ==
    CASE Arch(p) = "x86" ->
            /\ Mn(p) # "test"
            /\ p.sets = "compared" <=> Mn(p) \in {"cmp", "sub"}
            /\ p.sets = "compared" => Compares(p)
            /\ p.sets \notin {"none", "compared"} =>
                  Mn(p) \in (DOMAIN X86Binary) \cup {"inc", "dec"}
            /\ Mn(p) \in DOMAIN X86Taken /\ p.does = "branch" => p.on = Mn(p)
      [] Arch(p) = "arm" ->
            /\ p.sets = "compared" <=> Mn(p) = "cmp"
            /\ p.sets # "none" => p.sets = "compared" /\ Compares(p) /\ ~p.control.cond
            /\ p.does = "branch" /\ p.control.cond /\ p.control.predicate # Always
                  => \A c \in ConditionNames : c[1] = p.control.predicate => p.on = c[2]
      [] OTHER -> p.sets # "compared"

\* Only an instruction under a condition may not be executed, and one that is
\* described fully is not under one, unless it is a branch.
Proper(p) ==
    /\ Arch(p) \in {"x86", "arm", "aarch64", "bpf"}
    /\ Len(p.inst.ops) \in Nat /\ DOMAIN p.inst.ops = 1..Len(p.inst.ops)
    /\ \A n \in Indices(p.inst) : OperandOK(Op(p, n))
    /\ p.width \in DOMAIN BitsOf
    /\ Operates(p) \/ Copies(p) \/ Widens(p) \/ Loads(p) \/ Stores(p) \/ NamesAddress(p) \/ Alters(p)
         \/ Keeps(p)
    /\ Arch(p) \in {"arm", "aarch64"} /\ p.control.material => NamesAddress(p)
    /\ p.control.predicate = Always => p.on = "always" \/ p.does \in {"branch", "test"}
    /\ FlagsOK(p)
    /\ ~p.vague =>
          /\ p.control.predicate = Always \/ p.dst = -1
          /\ \A n \in Indices(p.inst) : IsMem(p, n) => p.does = "table" \/ Op(p, n).width # 0
          /\ p.dst = -1 => \A n \in Indices(p.inst) : "write" \notin Op(p, n).flags

ASSUME FormsAssumption == \A p \in Forms : Proper(p)

-----------------------------------------------------------------------------
\* The processor executes an instruction, the client follows.
Step(p) ==
    LET told     == AnalyzeValues(engine, p.inst, p.control)
        believed == Believed(p, told)
        runs     == p.does \in {"branch", "test"} \/ Holds(p.on, flags)
        written  == Written(p)
    IN  /\ p.inst.arch = engine.arch /\ p.inst.mode = engine.mode
        /\ steps < MaxSteps
        /\ steps' = steps + 1
        /\ regs'  = IF runs THEN written.regs ELSE regs
        /\ cells' = IF runs THEN written.cells ELSE cells
        /\ \/ (p.sets = "none" \/ ~runs) /\ flags' = flags
           \/ /\ p.sets = "compared" /\ runs
              /\ flags' = FlagsOfDifference(engine.arch, Fetch(p, p.srcs[1]),
                                            Fetch(p, p.srcs[2]), Bits(p, p.srcs[1]))
           \/ /\ p.sets = "other" /\ runs
              /\ flags' \in [z: BOOLEAN, n: BOOLEAN, c: {flags.c}, v: {FALSE}]
        /\ know' = believed.know /\ kcells' = believed.cells
        /\ compared' = Remembered(p, told)
        /\ forgot' = (forgot \/ p.vague)
        /\ verdict' = IF Outcome(p) = Unknown THEN NoVerdict
                      ELSE [predicted |-> Predicted(p, told, believed.target),
                            real |-> Outcome(p)]
        /\ UNCHANGED engine

TrackNext == \E p \in Forms : Step(p)

TrackSpec == TrackInit /\ [][TrackNext]_trackVars

-----------------------------------------------------------------------------
(***************************************************************************)
(* Properties.                                                             *)
(***************************************************************************)

\* What the client believes of a register or of memory is so, however the
\* instructions follow one another, through whatever name a register was
\* written and whether or not a predicated instruction was executed.
KnowledgeHolds ==
    /\ \A f \in DOMAIN regs : know[f] \in {Unknown, regs[f]}
    /\ \A c \in DOMAIN cells : kcells[c] \in {Unknown, cells[c]}

\* A branch predicted from the last comparison reported goes the way that was
\* predicted: the relation is the one the condition tests, no instruction that
\* changes the flags in between has been missed, and the operands are those of
\* the comparison although they have changed since.  A table branch goes where
\* the effects say.
PredictionsHold == verdict.predicted \in {Unknown, verdict.real}

\* The comparison the client keeps for the next branch is the one whose
\* difference the flags hold: an instruction that changes the flags otherwise
\* replaces it, and one that leaves them alone, or is not executed, keeps it.
ComparisonHolds ==
    \/ compared = NoComparison
    \/ flags = FlagsOfDifference(engine.arch, compared.left, compared.right, compared.bits)

\* The effects of an instruction that is described are complete: as long as no
\* other has been met, the client knows every value.
NothingForgotten ==
    ~forgot => /\ \A f \in DOMAIN regs : know[f] # Unknown
               /\ \A c \in DOMAIN cells : kcells[c] # Unknown
=============================================================================
