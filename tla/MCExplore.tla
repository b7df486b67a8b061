----------------------------- MODULE MCExplore ------------------------------
(***************************************************************************)
(* TLC instances of Explore.  A code is a sequence of instructions from    *)
(* Entry on, and for ARM a second one in the other instruction set;        *)
(* targets are given as addresses.                                         *)
(***************************************************************************)
EXTENDS Explore, MCForms

Island == Entry + 256          \* where the second sequence is placed

Ctl(form, switch, cond, tests, reported) ==
    [inst |-> form, switch |-> switch, cond |-> cond, first |-> 0, mask |-> 0,
     reported |-> reported, tests |-> tests]

Other0(form)      == Ctl(form, FALSE, 0, Always, form.target)
ItInst(first, mask) == [Other0(ThumbIt) EXCEPT !.first = first, !.mask = mask]

\* Thumb: the bits read for a condition are those of the second byte; in the
\* 32-bit branch they are the sign `s' of the displacement and the upper half of
\* the condition.
TPlain        == Ctl(Plain(2), FALSE, 15, Always, 0)
TBcond(c, t)  == Ctl(ThumbBcond(t), FALSE, c, c, t)
TBcondW(c, s, t) ==
    Ctl([ThumbBcond(t) EXCEPT !.size = 4, !.term = TRUE], FALSE, 4 * s + c \div 4, c, t)
TCbz(t)       == Ctl(ThumbCbz(t), FALSE, 1, Always, 0)
TBlx(t)       == Ctl(ThumbBl(t), TRUE, 0, Always, t)
TBx           == Ctl(ThumbBx, TRUE, 7, Always, 0)

\* A32: every instruction has a condition.
AOn(c)      == Ctl(Plain(4), FALSE, c, IF c < 14 THEN c ELSE Always, 0)
AB(t)       == Ctl(ArmB(t), FALSE, 14, Always, t)
ABcond(c, t) == Ctl(ArmBcond(t), FALSE, c, c, t)
ABl(c, t)   == Ctl(ArmBl(t), FALSE, c, IF c < 14 THEN c ELSE Always, t)
ABlx(t)     == Ctl(ArmBl(t), TRUE, 15, Always, t + 1)
ABx         == Ctl(ArmBx, TRUE, 14, Always, 0)

Laid(m, from, code) ==
    LET end[k \in 0..Len(code)] == IF k = 0 THEN from ELSE end[k - 1] + code[k].inst.size
    IN  {[at |-> end[k - 1], mode |-> m, i |-> code[k]] : k \in 1..Len(code)}

\* Bodies of up to four instructions behind each kind of IT instruction.
Its      == {ItInst(1, 8), ItInst(0, 4), ItInst(0, 12), ItInst(1, 10), ItInst(2, 7), ItInst(14, 1)}
Body     == {TPlain, Other0(ThumbBl(Entry + 2)), Other0(ThumbB(Entry + 2)), TBlx(Island)}
Straight == {TPlain, TBcond(3, Entry + 6), Other0(ThumbB(Entry)), TBx, ItInst(1, 4)}
ArmBody  == {AOn(14), AOn(1), AB(Island), ABl(2, Island + 4), ABlx(Entry), ABx}

Islands == {{}} \cup {Laid("a32", Island, c) : c \in [1..2 -> ArmBody]}

\* No branch is made conditional by an IT block; see Conditional.
Steady(code) ==
    \A j, k \in 1..Len(code) :
        /\ code[j].inst.cls = "it" /\ code[j].first < 14
        /\ j < k /\ k <= j + ItLength(code[j].mask)
        => code[k].inst.does \notin {"jump", "leave"}

Thumb(codes) == {Laid("thumb", Entry, c) : c \in {d \in codes : Steady(d)}}

Landing  == Laid("a32", Island, <<AOn(14)>>)
Blocks   == {t \cup Landing : t \in Thumb({<<i>> \o b : i \in Its, b \in [1..4 -> Body]})}
Lines    == Thumb([1..4 -> Straight])
Switches == {t \cup i : i \in Islands,
                t \in Thumb({<<a, TBlx(Island), b>> :
                               a \in {TPlain, ItInst(1, 8), ItInst(1, 4)}, b \in {TPlain, TBx}})}

X64 == {Other0(Plain(3)), Other0(Jmp(2, Entry)), Other0(Jcc(2, Entry + 5)),
        Other0(Call(5, Entry + 3)), Other0(Ret(1)), Other0(JmpReg), Other0(CallReg)}
A64 == {Other0(Plain(4)), Other0(A64B(Entry)), Other0(A64Cond("cbz", Entry + 8)),
        Other0(A64Bl(Entry + 4)), Other0(Ret(4)), Other0(A64Br), Other0(A64Blr)}

\* BPF jumps to addresses.  The labels of WebAssembly's branches are the client's
\* to resolve, and lead out of these codes; see StructuredCodes.
BpfHelper == Form("directCall", 8, FALSE, FALSE, FALSE, FALSE, "other", "call", 0)
BpfLddw   == Form("pseudo", 16, FALSE, FALSE, FALSE, TRUE, "other", "plain", 0)
BpfJcond(t) == Form("condBranch", 8, FALSE, TRUE, TRUE, FALSE, "other", "cond", t)
Bpf  == {Other0(Plain(8)), Other0(Jmp(8, Entry)), Other0(BpfJcond(Entry + 16)),
         Other0(BpfHelper), Other0(Ret(8)), Other0(BpfLddw)}

WasmBlock     == Form("structured", 2, FALSE, FALSE, FALSE, FALSE, "other", "plain", 0)
WasmBr(cls, term, does, t) == Form(cls, 2, term, FALSE, TRUE, FALSE, "other", does, t)
WasmCall(cls) == Form(cls, 2, FALSE, FALSE, TRUE, FALSE, "other", "call", 0)
Wasm == {Other0(Plain(1)), Other0(WasmBlock), Other0(Ret(1)),
         Other0(WasmBr("directBranch", TRUE, "jump", Entry + 64)),
         Other0(WasmBr("condBranch", FALSE, "cond", Entry + 64)),
         Other0(WasmCall("directCall")), Other0(WasmCall("indirectCall"))}

MCCodes == Blocks \cup Lines \cup Switches
             \cup {Laid("x86_64", Entry, c) : c \in [1..3 -> X64]}
             \cup {Laid("a64", Entry, c) : c \in [1..3 -> A64]}
             \cup {Laid("bpf64", Entry, c) : c \in [1..3 -> Bpf]}
             \cup {Laid(m, Entry, c) : m \in {"wasm32", "wasm64"}, c \in [1..3 -> Wasm]}

\* These are codes the theorems are about.
ASSUME MCRegular == \A c \in MCCodes : \A p \in c : Regular(c, p) /\ ConditionRead(p)

\* The codes on which the defects show: Wide in a run of its own, the others with
\* Codes set to their name in its configuration and ExplorerCovers checked.
Conditional == {Laid("thumb", Entry, <<ItInst(1, 8), Other0(ThumbB(Entry)), TPlain>>),
                Laid("a32", Entry, <<ABcond(1, Entry), AOn(14)>>),
                Laid("x86_64", Entry, <<Other0(Xbegin(Entry)), Other0(Plain(3))>>)}
Compares == {Laid("thumb", Entry, <<TCbz(Entry + 4), TBx, TPlain>>)}
StructuredCodes ==
    {Laid("wasm32", Entry, <<Other0([WasmBlock EXCEPT !.does = "cond", !.target = Entry + 4]),
                             Other0(WasmBr("directBranch", TRUE, "jump", Entry + 64)),
                             Other0(Plain(1))>>),
     Laid("wasm32", Entry, <<Other0([WasmBlock EXCEPT !.size = 1, !.term = TRUE]),
                             Other0(Plain(1))>>)}
Wide     == {Laid("thumb", Entry, <<TBcondW(c, 1, Entry), TPlain>>) : c \in {0, 1}}
             \cup {Laid("thumb", Entry, <<TBcondW(c, 0, Entry + 6), TPlain, TPlain>>) : c \in {0, 1}}
=============================================================================
