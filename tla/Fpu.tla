-------------------------------- MODULE Fpu ---------------------------------
(***************************************************************************)
(* The floating-point instructions of the simulator (RV32F and RV32D,      *)
(* iss.cpp) and the state they share with the CSRs: mstatus.fs, fcsr, and  *)
(* the flags the SoftFloat library leaves in a global variable.  Values    *)
(* are left out: an operation may raise any flags.  misa has F and D.      *)
(* An instruction that raises an illegal-instruction exception changes     *)
(* nothing of this; what the exception does is in module Trap.             *)
(***************************************************************************)
EXTENDS Naturals

CONSTANT
    Flags       \* the exceptions of SoftFloat

FRM_RMM == 4    \* rounding modes from here on are refused
FRM_DYN == 7    \* stands for the mode in fcsr.frm
States == {"FS_OFF", "FS_INITIAL", "FS_CLEAN", "FS_DIRTY"}

VARIABLES
    fs,                         \* mstatus.fs
    fflags, frm,                \* fcsr
    softfloat_exceptionFlags,
    softfloat_roundingMode,
    raised,     \* history: exceptions of the operations since the guest has
                \* last written the flags
    unsaved     \* history: how registers and fcsr have changed since fs was
                \* last written: "computed", "loaded", "written"

fpuVars == <<fs, fflags, frm, softfloat_exceptionFlags, softfloat_roundingMode,
             raised, unsaved>>

FpuInit ==
    /\ fs = "FS_OFF"
    /\ fflags = {} /\ frm = 0
    /\ softfloat_exceptionFlags = {} /\ softfloat_roundingMode = 0
    /\ raised = {} /\ unsaved = {}

-----------------------------------------------------------------------------
(* fp_require_not_off, the guard of fp_prepare_instr.                      *)
fp_require_not_off == fs # "FS_OFF"

(* fp_setup_rm: the mode of the instruction, or of fcsr.                   *)
fp_setup_rm(rm) ==
    LET mode == IF rm = FRM_DYN THEN frm ELSE rm
    IN  mode < FRM_RMM /\ softfloat_roundingMode' = mode

(* fp_update_exception_flags, for the operation that has raised es.        *)
fp_update_exception_flags(es) ==
    /\ fflags' = fflags \cup softfloat_exceptionFlags \cup es
    /\ softfloat_exceptionFlags' = {}

(* fp_finish_instr: fp_set_dirty and fp_update_exception_flags.            *)
fp_finish_instr(es) == fs' = "FS_DIRTY" /\ fp_update_exception_flags(es)

(* FADD .. FSQRT, FMADD .. FNMSUB and the conversions.                     *)
Compute(rm, es) ==
    /\ fp_require_not_off /\ fp_setup_rm(rm)
    /\ fp_finish_instr(es)
    /\ raised' = raised \cup es /\ unsaved' = unsaved \cup {"computed"}
    /\ UNCHANGED frm

(* FMIN and FMAX do not round.                                             *)
MinMax(es) ==
    /\ fp_require_not_off
    /\ fp_finish_instr(es)
    /\ raised' = raised \cup es /\ unsaved' = unsaved \cup {"computed"}
    /\ UNCHANGED <<frm, softfloat_roundingMode>>

(* FSGNJ .. FSGNJX and FMV_W_X without fp_set_dirty.                       *)
SignInject_clean ==
    /\ fp_require_not_off
    /\ unsaved' = unsaved \cup {"computed"}
    /\ UNCHANGED <<fs, fflags, frm, softfloat_exceptionFlags, softfloat_roundingMode, raised>>

(* FSGNJ .. FSGNJX and FMV_W_X raise nothing.                              *)
SignInject ==
    /\ fp_require_not_off
    /\ fs' = "FS_DIRTY"
    /\ unsaved' = unsaved \cup {"computed"}
    /\ UNCHANGED <<fflags, frm, softfloat_exceptionFlags, softfloat_roundingMode, raised>>

(* A comparison that forgets fp_update_exception_flags.                    *)
Compare_forgets(es) ==
    /\ fp_require_not_off
    /\ softfloat_exceptionFlags' = softfloat_exceptionFlags \cup es
    /\ raised' = raised \cup es
    /\ unsaved' = IF es = {} THEN unsaved ELSE unsaved \cup {"computed"}
    /\ UNCHANGED <<fs, fflags, frm, softfloat_roundingMode>>

(* FEQ, FLT and FLE write an integer register; fs changes with the flags.  *)
Compare(es) ==
    /\ fp_require_not_off
    /\ fp_update_exception_flags(es)
    /\ fs' = IF softfloat_exceptionFlags \cup es = {} THEN fs ELSE "FS_DIRTY"
    /\ raised' = raised \cup es
    /\ unsaved' = IF es = {} THEN unsaved ELSE unsaved \cup {"computed"}
    /\ UNCHANGED <<frm, softfloat_roundingMode>>

(* FLW and FLD neither ask for fs nor set it.                              *)
LoadFp ==
    /\ unsaved' = unsaved \cup {"loaded"}
    /\ UNCHANGED <<fs, fflags, frm, softfloat_exceptionFlags, softfloat_roundingMode, raised>>

-----------------------------------------------------------------------------
(* set_csr_value of fcsr, fflags and frm, which do not set fs either.      *)
WriteFcsr(es, mode) ==
    /\ fflags' = es /\ frm' = mode
    /\ raised' = {} /\ unsaved' = unsaved \cup {"written"}
    /\ UNCHANGED <<fs, softfloat_exceptionFlags, softfloat_roundingMode>>

WriteFflags(es) == WriteFcsr(es, frm)

WriteFrm(mode) ==
    /\ frm' = mode
    /\ unsaved' = unsaved \cup {"written"}
    /\ UNCHANGED <<fs, fflags, softfloat_exceptionFlags, softfloat_roundingMode, raised>>

(* set_csr_value of mstatus.  The guest has saved what it needs before it  *)
(* says that nothing is dirty.                                             *)
WriteStatus(state) ==
    /\ fs' = state
    /\ unsaved' = IF state = "FS_DIRTY" THEN unsaved ELSE {}
    /\ UNCHANGED <<fflags, frm, softfloat_exceptionFlags, softfloat_roundingMode, raised>>

FpuNext ==
    \/ \E es \in SUBSET Flags :
           \/ \E rm \in 0 .. 7 : Compute(rm, es)
           \/ MinMax(es) \/ Compare(es)
           \/ WriteFflags(es)
           \/ \E mode \in 0 .. 7 : WriteFcsr(es, mode)
    \/ SignInject \/ LoadFp
    \/ \E mode \in 0 .. 7 : WriteFrm(mode)
    \/ \E state \in States : WriteStatus(state)

FpuSpec == FpuInit /\ [][FpuNext]_fpuVars

-----------------------------------------------------------------------------
FpuTypeOK ==
    /\ fs \in States
    /\ {fflags, softfloat_exceptionFlags, raised} \subseteq SUBSET Flags
    /\ frm \in 0 .. 7 /\ softfloat_roundingMode \in 0 .. 3
    /\ unsaved \subseteq {"computed", "loaded", "written"}

(* Between two instructions the library holds no flags, as the assertion   *)
(* of fp_prepare_instr has it: every exception of an operation is in fcsr  *)
(* until the guest writes it, and none is charged to a later operation.    *)
NoFlagLost == softfloat_exceptionFlags = {} /\ raised \subseteq fflags

(* A guest that saves the registers only if fs is FS_DIRTY loses nothing   *)
(* that an operation has computed.  What FLW or FLD have loaded, or a CSR  *)
(* instruction has written to fcsr, it may lose: they leave fs alone.      *)
UnsavedIsDirty == "computed" \in unsaved => fs = "FS_DIRTY"
=============================================================================
