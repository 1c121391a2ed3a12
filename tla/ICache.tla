------------------------------- MODULE ICache -------------------------------
(***************************************************************************)
(* The instruction cache of the timing model                               *)
(* (InstrMemoryProxyWithHiFive1CacheTiming, timing.h): 512 sets of two     *)
(* lines and one mark each.  Only the heads of the cached addresses are    *)
(* kept; the instruction itself is always loaded from memory.  A line      *)
(* whose head is 0 counts as cached from the start.                        *)
(***************************************************************************)
CONSTANTS
    Tags,       \* the sets the guest's code falls into
    Heads,      \* the upper address bits of that code
    Cold        \* the head of addresses below 16384, and of an empty line

ASSUME ICacheAssumption == Cold \in Heads

VARIABLES
    lines,      \* first, second and the replacement mark of each set
    missed      \* the fetch just made stalled the pipeline

icacheVars == <<lines, missed>>

CacheLines == [first : Heads, second : Heads, stat : BOOLEAN]

ICacheInit ==
    /\ lines = [t \in Tags |-> [first |-> Cold, second |-> Cold, stat |-> FALSE]]
    /\ missed = FALSE

(* The line just used is the one replaced next.                            *)
Victim_marked(line, head) ==
    IF line.stat THEN [line EXCEPT !.first = head] ELSE [line EXCEPT !.second = head]

Victim(line, head) ==
    IF line.stat THEN [line EXCEPT !.second = head] ELSE [line EXCEPT !.first = head]

(* update_timing_model; a miss stalls for a random time, see Fetch of      *)
(* module Pipeline.                                                        *)
load_instr(tag, head) ==
    LET line == lines[tag]
        hit  == head \in {line.first, line.second}
    IN  /\ lines' = [lines EXCEPT ![tag] =
                        IF line.first = head THEN [line EXCEPT !.stat = TRUE]
                        ELSE IF line.second = head THEN [line EXCEPT !.stat = FALSE]
                        ELSE [Victim(line, head) EXCEPT !.stat = ~line.stat]]
        /\ missed' = ~hit

ICacheNext == \E tag \in Tags, head \in Heads : load_instr(tag, head)

ICacheSpec == ICacheInit /\ [][ICacheNext]_icacheVars

-----------------------------------------------------------------------------
ICacheTypeOK ==
    /\ lines \in [Tags -> CacheLines]
    /\ missed \in BOOLEAN

(* One mark a set, set by the hits and swapped by the misses, is the whole *)
(* of least-recently-used replacement: a fetch stalls exactly when its     *)
(* line is not one of the last two asked for in its set.                   *)
Lru == INSTANCE LruSets WITH
    Sets <- Tags, miss <- missed,
    latest <- [t \in Tags |-> IF lines[t].stat THEN lines[t].first ELSE lines[t].second],
    other <- [t \in Tags |-> IF lines[t].stat THEN lines[t].second ELSE lines[t].first]

EvictsOldest == Lru!Spec
=============================================================================
