----------------------------- MODULE Tms320C25 -----------------------------
(* The control part of the TMS320C25, the geometry DSP of System 22: the       *)
(* program counter and its stack of eight words, the interrupts and the timer, *)
(* the idle state, the repeat counter with the program address it walks, and   *)
(* the block of memory that is data or program.  The program is any sequence  *)
(* of instructions, its interrupt handlers those that enable interrupts again *)
(* with the last instruction before the return.                               *)
EXTENDS Integers, Sequences

CONSTANTS
    StackWords,     \* words of the stack: 8
    ProgramWords,   \* addresses of the program
    TimerPeriods,   \* periods a program sets
    Masks,          \* sets of interrupts it enables
    Cycles,         \* cycles of an instruction
    Bits,           \* values it gives the configuration bit
    MaxRepeat       \* counts of RPT a program uses

ASSUME Tms320Assumption ==
    /\ { StackWords, ProgramWords } \subseteq Nat \ {0} /\ TimerPeriods \subseteq Nat
    /\ Masks \subseteq SUBSET {"INT0", "TINT"} /\ Cycles \subseteq Nat \ {0} /\ Bits \subseteq BOOLEAN /\ MaxRepeat \in Nat

VARIABLES
    dspRegs,    \* PC, IFR, IMR, INTM, idle, the timer and the stack
    dspInSlice, \* inside execute
    dspRepeat,  \* m_RPTC, m_init_load_addr and m_PFC
    dspMoved,   \* program addresses the repeated instruction has read, and where it began
    dspConf,    \* CNF0 of the status register and m_b0_program
    dspFrames   \* what the program has on the stack: at most as much as fits

dspvars == << dspRegs, dspInSlice, dspRepeat, dspMoved, dspConf, dspFrames >>

Address == 0..(ProgramWords - 1)
NextWord(pc) == (pc + 1) % ProgramWords

Reset ==
    [pc |-> 0, ifr |-> {}, imr |-> {}, intm |-> TRUE, idle |-> FALSE, eint |-> FALSE,
     tim |-> 0, prd |-> 0, stack |-> [w \in 1..StackWords |-> 0]]
NotRepeating == [count |-> 0, load |-> 1, pfc |-> 0]
DspInit ==
    /\ dspRegs = Reset /\ dspInSlice = FALSE /\ dspRepeat = NotRepeating
    /\ dspMoved = [from |-> 0, read |-> << >>] /\ dspConf = [cnf0 |-> FALSE, b0Program |-> FALSE]
    /\ dspFrames = << >>

-----------------------------------------------------------------------------
(* The stack is a shift register: pushing loses the oldest word, popping       *)
(* leaves it where it was.  The newest is the last.                           *)
PushedSlip(stack, word) == [w \in 1..StackWords |-> IF w = StackWords THEN word ELSE stack[w]]
Pushed(stack, word) == [w \in 1..StackWords |-> IF w = StackWords THEN word ELSE stack[w + 1]]
Popped(stack) == [w \in 1..StackWords |-> IF w = 1 THEN stack[1] ELSE stack[w - 1]]

Fitting(frames) ==
    IF Len(frames) > StackWords THEN SubSeq(frames, 2, Len(frames)) ELSE frames
Framed(frames, kind, word) == Fitting(Append(frames, [kind |-> kind, word |-> word]))

(* process_IRQs: the first enabled interrupt, unless masked or right after     *)
(* EINT.                                                                      *)
MayInterrupt(regs) == ~regs.intm /\ ~regs.eint /\ regs.ifr \cap regs.imr # {}
TakenInterrupt(regs) == IF "INT0" \in regs.ifr \cap regs.imr THEN "INT0" ELSE "TINT"
Interrupted(regs) ==
    IF ~MayInterrupt(regs) THEN regs
    ELSE [regs EXCEPT !.stack = Pushed(regs.stack, regs.pc), !.idle = FALSE, !.intm = TRUE,
                      !.ifr = regs.ifr \ {TakenInterrupt(regs)}, !.pc = IF TakenInterrupt(regs) = "INT0" THEN 0 ELSE 1]
FramesAfter(regs, frames) ==
    IF MayInterrupt(regs) THEN Framed(frames, "irq", regs.pc) ELSE frames

(* process_timer: an overflow reloads the timer, raises TINT and may take an   *)
(* interrupt at once; the clocks that took go on counting.                    *)
Overflows(regs, ticks) == ticks > regs.tim
TimerRaised(regs) == [regs EXCEPT !.tim = regs.prd, !.ifr = regs.ifr \cup {"TINT"}]
TimerCounted(regs, ticks) ==
    IF Overflows(regs, ticks) THEN TimerRaised(regs) ELSE [regs EXCEPT !.tim = regs.tim - ticks]
InterruptTicks == 3
Timed(regs, ticks) ==
    IF ~Overflows(regs, ticks) THEN TimerCounted(regs, ticks)
    ELSE IF MayInterrupt(TimerRaised(regs)) THEN TimerCounted(Interrupted(TimerRaised(regs)), InterruptTicks)
    ELSE TimerRaised(regs)
TimedFrames(regs, ticks, frames) ==
    IF Overflows(regs, ticks) THEN FramesAfter(TimerRaised(regs), frames) ELSE frames

-----------------------------------------------------------------------------
(* execute, a slice at a time; interrupts from outside come between slices.   *)
SetInput ==
    /\ ~dspInSlice /\ "INT0" \notin dspRegs.ifr
    /\ dspRegs' = [dspRegs EXCEPT !.ifr = @ \cup {"INT0"}]
    /\ UNCHANGED << dspInSlice, dspRepeat, dspMoved, dspConf, dspFrames >>
StartSlice ==
    /\ ~dspInSlice /\ dspInSlice' = TRUE
    /\ IF dspRegs.idle
       THEN dspRegs' = Interrupted(dspRegs) /\ dspFrames' = FramesAfter(dspRegs, dspFrames)
       ELSE UNCHANGED << dspRegs, dspFrames >>
    /\ UNCHANGED << dspRepeat, dspMoved, dspConf >>
(* Clocks run out between two instructions, or while the DSP idles.           *)
EndSlice ==
    /\ dspInSlice /\ dspRepeat.load # 2 /\ dspRepeat.load # 0 /\ dspInSlice' = FALSE
    /\ UNCHANGED << dspRegs, dspRepeat, dspMoved, dspConf, dspFrames >>
IdleTimer(ticks) ==
    /\ dspInSlice /\ dspRegs.idle
    /\ dspRegs' = Timed(dspRegs, ticks) /\ dspFrames' = TimedFrames(dspRegs, ticks, dspFrames)
    /\ UNCHANGED << dspInSlice, dspRepeat, dspMoved, dspConf >>

(* An instruction: interrupts first, then the fetch, its effect and its time. *)
Handling(frames) == \E f \in 1..Len(frames) : frames[f].kind = "irq"
Fetched ==
    LET regs == IF dspRegs.ifr # {} THEN Interrupted(dspRegs) ELSE dspRegs
    IN [regs EXCEPT !.pc = NextWord(@), !.eint = FALSE]
FetchedFrames == IF dspRegs.ifr # {} THEN FramesAfter(dspRegs, dspFrames) ELSE dspFrames
Instruction(regs, frames, ticks) ==
    /\ dspInSlice /\ ~dspRegs.idle /\ dspRepeat.load = 1
    /\ dspRegs' = Timed(regs, ticks) /\ dspFrames' = TimedFrames(regs, ticks, frames)
    /\ UNCHANGED dspInSlice
(* The end of a handler is EINT and RET with nothing between them.            *)
Ordinary == ~(dspRegs.eint /\ Handling(dspFrames))
Rest == UNCHANGED << dspRepeat, dspMoved, dspConf >>

Branch(target, ticks) ==
    /\ Ordinary /\ Rest
    /\ Instruction([Fetched EXCEPT !.pc = target], FetchedFrames, ticks)
Call(target, ticks) ==          \* CALL, CALA, TRAP
    /\ Ordinary /\ Rest /\ ~Handling(FetchedFrames)
    /\ LET back == NextWord(Fetched.pc)
       IN Instruction([Fetched EXCEPT !.pc = target, !.stack = Pushed(@, back)],
                      Framed(FetchedFrames, "call", back), ticks)
Ret(ticks) ==                   \* RET
    /\ Rest /\ FetchedFrames # << >> /\ (Handling(FetchedFrames) => ~Fetched.intm)
    /\ Instruction([Fetched EXCEPT !.pc = Fetched.stack[StackWords], !.stack = Popped(@)],
                   SubSeq(FetchedFrames, 1, Len(FetchedFrames) - 1), ticks)
PushData(word, ticks) ==        \* PUSH, PSHD
    /\ Ordinary /\ Rest /\ ~Handling(FetchedFrames)
    /\ Instruction([Fetched EXCEPT !.stack = Pushed(@, word)], Framed(FetchedFrames, "data", word), ticks)
PopData(ticks) ==               \* POP, POPD
    /\ Ordinary /\ Rest /\ FetchedFrames # << >> /\ FetchedFrames[Len(FetchedFrames)].kind = "data"
    /\ Instruction([Fetched EXCEPT !.stack = Popped(@)], SubSeq(FetchedFrames, 1, Len(FetchedFrames) - 1), ticks)
Eint(ticks) ==
    /\ Ordinary /\ Rest /\ Instruction([Fetched EXCEPT !.intm = FALSE, !.eint = TRUE], FetchedFrames, ticks)
Dint(ticks) ==
    /\ Ordinary /\ Rest /\ Instruction([Fetched EXCEPT !.intm = TRUE], FetchedFrames, ticks)
WaitForInterrupt(ticks) ==
    /\ Ordinary /\ Rest /\ ~Handling(FetchedFrames)
    /\ Instruction([Fetched EXCEPT !.intm = FALSE, !.idle = TRUE], FetchedFrames, ticks)
WriteImr(imr, ticks) ==         \* data address 4
    /\ Ordinary /\ Rest /\ Instruction([Fetched EXCEPT !.imr = imr], FetchedFrames, ticks)
WriteTimerPeriod(period, ticks) ==   \* data addresses 2 and 3
    /\ Ordinary /\ Rest /\ Instruction([Fetched EXCEPT !.tim = period, !.prd = period], FetchedFrames, ticks)

(* CNFD and CNFP look at the status bit; LST1 loads it with the register.     *)
Configure(program, ticks) ==
    /\ Ordinary /\ UNCHANGED << dspRepeat, dspMoved >>
    /\ dspConf' = IF dspConf.cnf0 = program THEN dspConf ELSE [cnf0 |-> program, b0Program |-> program]
    /\ Instruction(Fetched, FetchedFrames, ticks)
LoadStatus1(cnf0, ticks) ==
    /\ Ordinary /\ UNCHANGED << dspRepeat, dspMoved >>
    /\ dspConf' = [dspConf EXCEPT !.cnf0 = cnf0]
    /\ Instruction(Fetched, FetchedFrames, ticks)

(* RPT and the instruction after it, which reads program memory: BLKP, MAC,   *)
(* TBLR.  It takes its address with the first of the repetitions, from the    *)
(* word after it, and no interrupt is taken before the last.                  *)
Repeat(count) ==
    /\ dspInSlice /\ ~dspRegs.idle /\ dspRepeat.load = 1 /\ Ordinary
    /\ dspRegs' = Fetched /\ dspFrames' = FetchedFrames
    /\ dspRepeat' = [count |-> count, load |-> 2, pfc |-> dspRepeat.pfc]
    /\ dspMoved' = [from |-> 0, read |-> << >>] /\ UNCHANGED << dspInSlice, dspConf >>
LoadsAddressSlip == TRUE
LoadsAddress == dspRepeat.load # 0
ReadProgram(word) ==
    /\ dspRepeat.load \in {0, 2} /\ (dspRepeat.load = 0 => word = dspMoved.from)
    /\ LET from == IF LoadsAddress THEN word ELSE dspRepeat.pfc
       IN /\ dspMoved' = [from |-> word, read |-> Append(dspMoved.read, from)]
          /\ IF dspRepeat.count = 0
             THEN /\ dspRegs' = Timed([dspRegs EXCEPT !.pc = NextWord(NextWord(@))], 2)
                  /\ dspFrames' = TimedFrames([dspRegs EXCEPT !.pc = NextWord(NextWord(@))], 2, dspFrames)
                  /\ dspRepeat' = [count |-> 0, load |-> 1, pfc |-> NextWord(NextWord(dspRegs.pc))]
             ELSE /\ dspRepeat' = [count |-> dspRepeat.count - 1, load |-> 0, pfc |-> NextWord(from)]
                  /\ UNCHANGED << dspRegs, dspFrames >>
    /\ UNCHANGED << dspInSlice, dspConf >>

DspNext ==
    \/ SetInput \/ StartSlice \/ EndSlice
    \/ \E ticks \in Cycles :
          \/ IdleTimer(ticks) \/ Ret(ticks) \/ PopData(ticks) \/ Eint(ticks) \/ Dint(ticks) \/ WaitForInterrupt(ticks)
          \/ \E target \in Address : Branch(target, ticks) \/ Call(target, ticks) \/ PushData(target, ticks)
          \/ \E imr \in Masks : WriteImr(imr, ticks)
          \/ \E period \in TimerPeriods : WriteTimerPeriod(period, ticks)
          \/ \E bit \in Bits : Configure(bit, ticks) \/ LoadStatus1(bit, ticks)
    \/ \E count \in 0..MaxRepeat : Repeat(count)
    \/ \E word \in Address : ReadProgram(word)
DspSpec == DspInit /\ [][DspNext]_dspvars

-----------------------------------------------------------------------------
(* What the program has pushed, as far as the stack is deep, is what it will   *)
(* pop: interrupts in any place, between instructions or when the timer        *)
(* overflows in one, leave calls and saved data where they were; and handlers  *)
(* that end in EINT and RET are never nested, however fast interrupts come.    *)
StackServes ==
    /\ \A f \in 1..Len(dspFrames) :
          dspFrames[f].word = dspRegs.stack[StackWords - Len(dspFrames) + f]
    /\ \A f, g \in 1..Len(dspFrames) : (dspFrames[f].kind = "irq" /\ dspFrames[g].kind = "irq") => f = g

(* A repeated instruction reads consecutive words of program memory, from the *)
(* one it was given.                                                          *)
WordAfterWord ==
    \A r \in 1..Len(dspMoved.read) :
        dspMoved.read[r] = IF r = 1 THEN dspMoved.from ELSE NextWord(dspMoved.read[r - 1])

-----------------------------------------------------------------------------
(* The arithmetic of the TMS320C25: the accumulator with its carry and         *)
(* overflow, the two overflow modes, the product register and its shift, and   *)
(* the conditional subtraction that divides.  A word has HalfBits bits (16)    *)
(* and the accumulator twice as many, so that every value can be tried.       *)

CONSTANTS
    HalfBits,           \* bits of a data word: 16
    MaxInstructions     \* instructions tried in a row, a repeated SUBC once

ASSUME Tms320AluAssumption == HalfBits \in Nat \ {0} /\ MaxInstructions \in Nat

\* What a proof has to know of the powers of two: no prover has exponentiation.
ASSUME Tms320PowerAssumption ==
    2^0 = 1 /\ \A n \in 0..HalfBits : 2^n \in Nat \ {0} /\ 2^(n + 1) = 2 * 2^n

VARIABLES
    alu,        \* ACC, P, T, the status bits C, OV, TC and the modes OVM, SXM, PM
    aluLast,    \* the last instruction: what it added, or the opposite of what it subtracted
    aluDivision,\* the SUBCs of the same divisor so far, from which dividend
    aluCount    \* instructions executed

aluvars == << alu, aluLast, aluDivision, aluCount >>

Half == 2^HalfBits
Full == Half * Half
DataWord == 0..(Half - 1)
Wrapped(n) == n % Full
Signed(n) == IF n >= Full \div 2 THEN n - Full ELSE n
SignedWord(n) == IF n >= Half \div 2 THEN n - Half ELSE n
High(n) == n \div Half
Low(n) == n % Half
InRange(n) == n >= -(Full \div 2) /\ n < Full \div 2
Nothing == [kind |-> "none", amount |-> 0]
NoDivision == [steps |-> 0, dividend |-> 0, divisor |-> 0]

AluInit ==
    /\ alu = [acc |-> 0, p |-> 0, t |-> 0, c |-> 1, ov |-> FALSE, tc |-> FALSE,
              ovm |-> FALSE, sxm |-> TRUE, pm |-> 0]
    /\ aluLast = Nothing /\ aluDivision = NoDivision /\ aluCount = 0

-----------------------------------------------------------------------------
(* GETDATA and the immediate operands.                                        *)
Operand(word, shift, extend) ==
    Wrapped((IF extend THEN SignedWord(word) ELSE word) * 2^shift)
(* SHIFT_Preg_TO_ALU: by 0, 1, 4 or, to the right, 6.                          *)
ShiftedProduct(a) ==
    CASE a.pm = 0 -> a.p [] a.pm = 1 -> Wrapped(a.p * 2) [] a.pm = 2 -> Wrapped(a.p * 16)
      [] OTHER -> Wrapped(Signed(a.p) \div 64)

(* An overflow sets OV and, in overflow mode, leaves the nearest bound.       *)
Bound(acc) == IF Signed(acc) < 0 THEN Full \div 2 ELSE Full \div 2 - 1
Saturated(a, result, out) ==
    [a EXCEPT !.acc = IF out /\ a.ovm THEN Bound(a.acc) ELSE result, !.ov = @ \/ out]
AddOverflows(old, operand, new) ==
    /\ (Signed(new) < 0) # (Signed(operand) < 0)
    /\ (Signed(old) < 0) # (Signed(new) < 0)
SubOverflows(old, operand, new) ==
    /\ (Signed(old) < 0) # (Signed(operand) < 0)
    /\ (Signed(old) < 0) # (Signed(new) < 0)
(* CALCULATE_ADD_CARRY and CALCULATE_SUB_CARRY compare the accumulator that    *)
(* is left, saturated or not, with the old one.                               *)
AddCarrySlip(old, new) == IF old >= new THEN 1 ELSE 0
AddCarry(old, new) == IF old > new THEN 1 ELSE 0
SubCarry(old, new) == IF old < new THEN 0 ELSE 1

Added(a, operand) ==            \* ADD, ADDK, ADDS, ADDT, ADLK, APAC and what accumulates P
    LET sum == Wrapped(a.acc + operand)
        left == Saturated(a, sum, AddOverflows(a.acc, operand, sum))
    IN [left EXCEPT !.c = AddCarry(a.acc, left.acc)]
Subtracted(a, operand) ==       \* SUB, SUBK, SUBS, SUBT, SBLK, SPAC and what subtracts P
    LET rest == Wrapped(a.acc - operand)
        left == Saturated(a, rest, SubOverflows(a.acc, operand, rest))
    IN [left EXCEPT !.c = SubCarry(a.acc, left.acc)]
(* With the carry: an accumulator that did not change keeps it.               *)
Kept(old, new, carry, fresh) == IF old = new THEN carry ELSE fresh
AddedWithCarry(a, word) ==      \* ADDC
    LET sum == Wrapped(a.acc + word + a.c)
        left == Saturated(a, sum, AddOverflows(a.acc, word, sum))
    IN [left EXCEPT !.c = Kept(a.acc, left.acc, a.c, AddCarry(a.acc, left.acc))]
SubtractedWithBorrow(a, word) == \* SUBB
    LET rest == Wrapped(a.acc - word - (1 - a.c))
        left == Saturated(a, rest, SubOverflows(a.acc, word, rest))
    IN [left EXCEPT !.c = Kept(a.acc, left.acc, a.c, SubCarry(a.acc, left.acc))]
(* Into the high half: the low one stays, even when the high one saturates,    *)
(* and the carry is only set, the borrow only reported.                       *)
HighHalf(a, high, out) ==
    [a EXCEPT !.acc = Low(a.acc) + Half * (IF out /\ a.ovm THEN High(Bound(a.acc)) ELSE high),
              !.ov = @ \/ out]
AddedHigh(a, word) ==           \* ADDH
    LET high == (High(a.acc) + word) % Half
    IN [HighHalf(a, high, AddOverflows(a.acc, word * Half, high * Half))
           EXCEPT !.c = IF High(a.acc) > high THEN 1 ELSE a.c]
SubtractedHigh(a, word) ==      \* SUBH
    LET high == (High(a.acc) - word) % Half
    IN [HighHalf(a, high, SubOverflows(a.acc, word * Half, high * Half))
           EXCEPT !.c = IF High(a.acc) < high THEN 0 ELSE a.c]

(* SUBC: one step of a division, never saturated.                             *)
DivisorShiftSlip == HalfBits
DivisorShift == HalfBits - 1
Conditional(a, word) ==
    LET divisor == Operand(word, DivisorShift, a.sxm)
        rest == Wrapped(a.acc - divisor)
    IN [a EXCEPT !.acc = IF a.acc >= divisor THEN Wrapped(rest * 2 + 1) ELSE Wrapped(a.acc * 2),
                 !.ov = @ \/ SubOverflows(a.acc, divisor, rest), !.c = SubCarry(a.acc, rest)]

Absolute(a) ==                  \* ABS
    IF Signed(a.acc) >= 0 THEN [a EXCEPT !.c = 0]
    ELSE LET least == a.acc = Full \div 2
         IN [a EXCEPT !.acc = IF least /\ a.ovm THEN Full \div 2 - 1 ELSE Wrapped(-a.acc),
                      !.ov = @ \/ least, !.c = 0]
Negated(a) ==                   \* NEG
    LET least == a.acc = Full \div 2
        acc == IF least THEN (IF a.ovm THEN Full \div 2 - 1 ELSE a.acc) ELSE Wrapped(-a.acc)
    IN [a EXCEPT !.acc = acc, !.ov = @ \/ least, !.c = IF acc = 0 THEN 1 ELSE 0]
(* NORM shifts while the two highest bits agree.                              *)
Normalized(a) ==
    IF a.acc # 0 /\ (Signed(a.acc) < 0) = (Signed(Wrapped(a.acc * 2)) < 0)
    THEN [a EXCEPT !.acc = Wrapped(a.acc * 2), !.tc = FALSE]
    ELSE [a EXCEPT !.tc = TRUE]
TopBit(acc) == acc \div (Full \div 2)
ShiftedLeft(a, in) == [a EXCEPT !.acc = Wrapped(a.acc * 2) + in, !.c = TopBit(a.acc)]
ShiftedRight(a, in) == [a EXCEPT !.acc = a.acc \div 2 + in * (Full \div 2), !.c = a.acc % 2]

-----------------------------------------------------------------------------
ExecuteAlu(next, last, division) ==
    /\ aluCount < MaxInstructions \/ division.steps > 1
    /\ aluCount' = IF division.steps > 1 THEN aluCount ELSE aluCount + 1
    /\ alu' = next /\ aluLast' = last /\ aluDivision' = division
Plain(next) == ExecuteAlu(next, Nothing, NoDivision)
Sums(next, kind, amount) == ExecuteAlu(next, [kind |-> kind, amount |-> amount], NoDivision)

AddWord(word, shift, extend) ==
    LET operand == Operand(word, shift, extend) IN Sums(Added(alu, operand), "sum", Signed(operand))
SubWord(word, shift, extend) ==
    LET operand == Operand(word, shift, extend) IN Sums(Subtracted(alu, operand), "rest", Signed(operand))
AddCarried(word) == Sums(AddedWithCarry(alu, word), "sum", word + alu.c)
SubBorrowed(word) == Sums(SubtractedWithBorrow(alu, word), "rest", word + 1 - alu.c)
AddHigh(word) == Plain(AddedHigh(alu, word))
SubHigh(word) == Plain(SubtractedHigh(alu, word))
Subc(word) ==
    LET same == aluDivision.steps \in 1..(HalfBits - 1) /\ aluDivision.divisor = word
    IN ExecuteAlu(Conditional(alu, word), Nothing,
               [steps |-> IF same THEN aluDivision.steps + 1 ELSE 1, divisor |-> word,
                dividend |-> IF same THEN aluDivision.dividend ELSE alu.acc])
(* MPYA, SQRA, LTA, MAC and their kin: the old product goes to the             *)
(* accumulator before the new one is made.                                    *)
Product(t, word) == Wrapped(SignedWord(t) * SignedWord(word))
Accumulate(t, word) ==
    LET product == ShiftedProduct(alu)
    IN Sums([Added(alu, product) EXCEPT !.t = t, !.p = Product(t, word)], "sum", Signed(product))
Deduct(t, word) ==
    LET product == ShiftedProduct(alu)
    IN Sums([Subtracted(alu, product) EXCEPT !.t = t, !.p = Product(t, word)], "rest", Signed(product))
AddProduct(t) == Sums([Added(alu, ShiftedProduct(alu)) EXCEPT !.t = t], "sum", Signed(ShiftedProduct(alu)))
SubProduct(t) == Sums([Subtracted(alu, ShiftedProduct(alu)) EXCEPT !.t = t], "rest", Signed(ShiftedProduct(alu)))
Multiply(word) ==
    \/ Plain([alu EXCEPT !.p = Product(alu.t, word)])        \* MPY, MPYK
    \/ Plain([alu EXCEPT !.p = Wrapped(alu.t * word)])       \* MPYU
LoadAcc(word, shift, extend) == Plain([alu EXCEPT !.acc = Operand(word, shift, extend)])
LoadHigh(word) ==
    \/ Plain([alu EXCEPT !.acc = word * Half])
    \/ Plain([alu EXCEPT !.acc = word * Half + Half \div 2])
LoadT(word) == Plain([alu EXCEPT !.t = word])
LoadP(word) == Plain([alu EXCEPT !.p = word * Half + Low(alu.p)])
TakeProduct(t) == Plain([alu EXCEPT !.t = t, !.acc = ShiftedProduct(alu)])
Unary ==
    \/ Plain(Absolute(alu)) \/ Plain(Negated(alu)) \/ Plain(Normalized(alu))
    \/ Plain(ShiftedLeft(alu, 0)) \/ Plain(ShiftedLeft(alu, alu.c))
    \/ Plain(ShiftedRight(alu, IF alu.sxm THEN TopBit(alu.acc) ELSE 0)) \/ Plain(ShiftedRight(alu, alu.c))
    \/ Plain([alu EXCEPT !.acc = Full - 1 - @])
SetMode ==
    \/ \E bit \in BOOLEAN : Plain([alu EXCEPT !.ovm = bit]) \/ Plain([alu EXCEPT !.sxm = bit])
    \/ \E bit \in BOOLEAN : Plain([alu EXCEPT !.ov = bit, !.ovm = bit])
    \/ \E shift \in 0..3 : Plain([alu EXCEPT !.pm = shift])
    \/ \E bit \in 0..1 : Plain([alu EXCEPT !.c = bit])
    \/ Plain([alu EXCEPT !.ov = FALSE])                      \* BV, BNV

AluNext ==
    \/ Unary \/ SetMode
    \/ \E word \in DataWord :
          \/ AddCarried(word) \/ SubBorrowed(word) \/ AddHigh(word) \/ SubHigh(word) \/ Subc(word)
          \/ Multiply(word) \/ LoadHigh(word) \/ LoadT(word) \/ LoadP(word) \/ TakeProduct(word)
          \/ AddProduct(alu.t) \/ SubProduct(alu.t) \/ AddProduct(word) \/ SubProduct(word)
          \/ \E t \in {alu.t, word} : Accumulate(t, word) \/ Deduct(t, word)
          \/ \E shift \in 0..(HalfBits - 1), extend \in {alu.sxm, FALSE} :
                \/ AddWord(word, shift, extend) \/ SubWord(word, shift, extend)
                \/ LoadAcc(word, shift, extend)
AluSpec == AluInit /\ [][AluNext]_aluvars

-----------------------------------------------------------------------------
(* An addition or a subtraction of the whole accumulator leaves the exact      *)
(* result where it fits, and a carry that a longer sum can go on with; where   *)
(* it does not fit OV tells, and in overflow mode the bound on its side is     *)
(* left.                                                                      *)
Exact == IF aluLast'.kind = "sum" THEN Signed(alu.acc) + aluLast'.amount ELSE Signed(alu.acc) - aluLast'.amount
Unsigned == IF aluLast'.amount < 0 THEN aluLast'.amount + Full ELSE aluLast'.amount
CarryOut ==
    IF aluLast'.kind = "sum" THEN alu.acc + Unsigned >= Full ELSE alu.acc >= Unsigned
SummedExactly ==
    aluLast'.kind # "none" =>
        /\ InRange(Exact) => Signed(alu'.acc) = Exact /\ alu'.ov = alu.ov
        /\ ~InRange(Exact) => alu'.ov /\ (alu.ovm => alu'.acc = Bound(alu.acc))
        /\ (InRange(Exact) \/ ~alu.ovm) => alu'.c = (IF CarryOut THEN 1 ELSE 0)
\* Of every instruction that adds or subtracts.
SumsAreExact == [][SummedExactly]_aluvars

(* As many SUBCs as a word has bits divide: the quotient is in the low half    *)
(* and the remainder in the high one.                                         *)
Divides ==
    (/\ aluDivision.steps = HalfBits /\ aluDivision.dividend < Half
     /\ aluDivision.divisor > 0 /\ aluDivision.divisor < Half \div 2)
    => /\ Low(alu.acc) = aluDivision.dividend \div aluDivision.divisor
       /\ High(alu.acc) = aluDivision.dividend % aluDivision.divisor

=============================================================================
