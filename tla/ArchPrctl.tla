----------------------------- MODULE ArchPrctl -----------------------------
(***************************************************************************)
(* arch_prctl.c: for GS and then FS, save the base, set a test value, read  *)
(* it back, restore the base and read it back, with an assert after each    *)
(* reading.  Any call may fail.  FS is the base of thread-local storage:    *)
(* with a wrong FS base, errno (which a failing call sets), printf and a    *)
(* failing assert all crash the program.                                    *)
(***************************************************************************)
EXTENDS Naturals, Sequences

Registers == <<"GS", "FS">>
Orig == "orig"                  \* the base the register has at the start
test_val == "0xdeadbeef"
Sentinel == "0xfeedface"        \* in orig_val and out_val before a reading

VARIABLES
  base,                  \* the base of each register
  reg, step,             \* the register under test, the step of the test
  orig_val, out_val,     \* both assigned before they are first used
  lost                   \* history: registers whose base was never read
prctl_vars == <<base, reg, step, orig_val, out_val, lost>>

Steps == {"save", "set", "check_set", "reset", "check_reset", "probes", "end", "died"}
Bases == {Orig, test_val, Sentinel}

PrctlTypeOK ==
  /\ base \in [{"GS", "FS"} -> Bases] /\ lost \in SUBSET {"GS", "FS"}
  /\ reg \in 1..2 /\ step \in Steps
  /\ orig_val \in Bases /\ out_val \in Bases

PrctlInit ==
  /\ base = [r \in {"GS", "FS"} |-> Orig] /\ lost = {}
  /\ reg = 1 /\ step = "save"
  /\ orig_val = Sentinel /\ out_val = Sentinel

R == Registers[reg]

(* Thread-local storage is where the C library expects it.                  *)
Sound == base["FS"] = Orig

Dies == step' = "died" /\ UNCHANGED <<base, reg, orig_val, out_val, lost>>

(* The GET that saves the base; its failure is printed and ignored.         *)
SaveBase ==
  /\ step = "save" /\ step' = "set"
  /\ \/ orig_val' = base[R] /\ UNCHANGED lost
     \/ orig_val' = Sentinel /\ lost' = lost \cup {R}
  /\ out_val' = Sentinel
  /\ UNCHANGED <<base, reg>>

(* arch_prctl(setcmd, val), whose result is printed for GS, ignored for FS. *)
SetBase(from, to, val) ==
  /\ step = from
  /\ \/ base' = [base EXCEPT ![R] = val] /\ step' = to
        /\ UNCHANGED <<reg, orig_val, out_val, lost>>
     \/ Sound /\ step' = to /\ UNCHANGED <<base, reg, orig_val, out_val, lost>>
     \/ ~Sound /\ Dies

SetTest == SetBase("set", "check_set", test_val)
Reset == SetBase("reset", "check_reset", orig_val)

(* What out_val holds after a GET: the GS test resets it first, the FS test *)
(* does not, so that a failing GET leaves the value of the one before.      *)
ReadBack(got) == IF got THEN base[R] ELSE IF R = "GS" THEN Sentinel ELSE out_val

(* assert compiled out, as NDEBUG does.                                     *)
AssertedNot(val, expected) == TRUE

Asserted(val, expected) == val = expected

(* A GET, then the assert.                                                  *)
CheckBase(from, expected, next, nextreg) ==
  /\ step = from
  /\ \E got \in BOOLEAN :
       IF (got \/ Sound) /\ Asserted(ReadBack(got), expected)
       THEN /\ out_val' = ReadBack(got) /\ step' = next /\ reg' = nextreg
            /\ UNCHANGED <<base, orig_val, lost>>
       ELSE Dies

CheckSet == CheckBase("check_set", test_val, "reset", reg)
CheckReset ==
  IF R = "GS" THEN CheckBase("check_reset", orig_val, "save", 2)
              ELSE CheckBase("check_reset", orig_val, "probes", 2)

(* The other arch_prctl calls, whose results are only printed (what the     *)
(* GETs among them leave in out_val is not used again).                     *)
Probes ==
  /\ step = "probes" /\ step' = IF Sound THEN "end" ELSE "died"
  /\ UNCHANGED <<base, reg, orig_val, out_val, lost>>

PrctlNext == SaveBase \/ SetTest \/ CheckSet \/ Reset \/ CheckReset \/ Probes

PrctlEnded == step \in {"end", "died"}

-----------------------------------------------------------------------------
(* A run that ends normally has put both bases back, whichever calls failed *)
(* on the way: a test value left in FS or GS is caught by an assert or by   *)
(* the crash it causes.  The one exception is a GS base that was never      *)
(* read, where the sentinel is restored and the last assert compares it     *)
(* with itself.                                                             *)
BasesRestored ==
  step = "end" => base["FS"] = Orig /\ (base["GS"] = Orig \/ "GS" \in lost)
=============================================================================
