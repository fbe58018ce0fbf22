-------------------------------- MODULE Rng --------------------------------
(***************************************************************************)
(* crypto/rng.c: the entropy pool and the ChaCha20 generator with fast key *)
(* erasure.  SHA-256 and ChaCha20 are symbolic, keys are terms:            *)
(*   <<"mix", key, snapshot>>   SHA-256 of a key and a copy of the pool    *)
(*   <<"low", key, ctr>>        the first half of a keystream block        *)
(* and a piece of output is the second half, <<key, ctr>>.  A word of the  *)
(* pool is the number of samples mixed into it; that samples are hard to   *)
(* foresee is an assumption of the code, not modelled.                     *)
(***************************************************************************)
EXTENDS Integers, Sequences

CONSTANTS
  POOL_WORDS,
  INIT_STIRS,   \* samples rng_init gathers
  RESEED,       \* calls of rng_bytes between two reseeds (64)
  HALF,         \* units in half a block (32 bytes)
  CTR,          \* drbg_ctr counts modulo this (2^32)
  MaxStirs, MaxRequests, MaxUnits   \* bounds

ASSUME RngAssumption == POOL_WORDS > 0 /\ RESEED > 0 /\ HALF > 0 /\ CTR > 1 /\ INIT_STIRS > 0

VARIABLES
  pool, pool_idx, pool_stir,
  drbg,         \* [key, ctr, calls, ready, ks]
  given,        \* history: output given out
  requests      \* history: calls of rng_bytes

rngvars == <<pool, pool_idx, pool_stir, drbg, given, requests>>

---------------------------------------------------------------------------
Stirred(p) ==
  [pool |-> [p.pool EXCEPT ![p.idx % POOL_WORDS] = @ + 1],
   idx |-> (p.idx % POOL_WORDS) + 1, stir |-> p.stir + 1]
ThePool == [pool |-> pool, idx |-> pool_idx, stir |-> pool_stir]
SetPool(p) == pool' = p.pool /\ pool_idx' = p.idx /\ pool_stir' = p.stir

rng_stir == /\ pool_stir < MaxStirs /\ SetPool(Stirred(ThePool))
            /\ UNCHANGED <<drbg, given, requests>>

rng_reseed(g, p) ==
  [g EXCEPT !.key = <<"mix", g.key, p, g.ctr>>, !.calls = 0, !.ready = TRUE]

Gathered(p) ==
  LET q[i \in 0..INIT_STIRS] == IF i = 0 THEN p ELSE Stirred(q[i - 1]) IN q[INIT_STIRS]
rng_init(g, p) == rng_reseed(g, Gathered(p))

(* mutant: the first half of a block is not made the next key              *)
Block64_Kept(g) == [g EXCEPT !.ks = <<"none">>, !.ctr = (@ + 1) % CTR]
(* one turn of the loop; ks holds the block until the call ends            *)
Block64(g) ==
  [g EXCEPT !.key = <<"low", g.key, g.ctr>>, !.ks = <<"block", g.key, g.ctr>>,
            !.ctr = (@ + 1) % CTR]
Piece(g) == <<g.key, g.ctr>>

RECURSIVE Filled(_, _, _)
Filled(g, n, out) ==
  IF n = 0 THEN [g |-> [g EXCEPT !.ks = <<"none">>], out |-> out]
  ELSE Filled(Block64(g), IF n < HALF THEN 0 ELSE n - HALF, Append(out, Piece(g)))
Counted(g, p) ==
  IF (g.calls + 1) % RESEED = 0 THEN rng_reseed(g, p) ELSE [g EXCEPT !.calls = @ + 1]

rng_bytes(n) ==
  /\ requests < MaxRequests /\ requests' = requests + 1
  /\ LET p == IF drbg.ready THEN ThePool ELSE Gathered(ThePool)
         f == Filled(IF drbg.ready THEN drbg ELSE rng_init(drbg, ThePool), n, <<>>)
     IN  SetPool(p) /\ drbg' = Counted(f.g, p) /\ given' = given \o f.out

RngInit ==
  /\ pool = [i \in 0..(POOL_WORDS - 1) |-> 0] /\ pool_idx = 0 /\ pool_stir = 0
  /\ drbg = [key |-> <<"zero">>, ctr |-> 0, calls |-> 0, ready |-> FALSE, ks |-> <<"none">>]
  /\ given = <<>> /\ requests = 0
RngNext == rng_stir \/ \E n \in 0..MaxUnits : rng_bytes(n)

---------------------------------------------------------------------------
RECURSIVE Ages(_)
(* blocks drawn since the last mix, and the pool that was mixed in         *)
Ages(key) == CASE key[1] = "zero" -> [blocks |-> 0, stir |-> 0]
               [] key[1] = "mix" -> [blocks |-> 0, stir |-> key[3].stir]
               [] OTHER -> LET a == Ages(key[2]) IN [a EXCEPT !.blocks = @ + 1]

(* Output once given out is given to nobody else, although the counter     *)
(* wraps, and it cannot be computed again from what the generator keeps:   *)
(* neither its key nor the block it came from is still there               *)
(* (rng.c:154-158, "past output cannot be recomputed").                    *)
Erased ==
  /\ \A i, j \in DOMAIN given : given[i] = given[j] => i = j
  /\ \A i \in DOMAIN given : given[i][1] # drbg.key
                             /\ drbg.ks # <<"block", given[i][1], given[i][2]>>

(* All output comes of a key the gathered pool went into, and the pool is  *)
(* mixed in again before RESEED calls have drawn from one key's line.      *)
Seeded ==
  \A i \in DOMAIN given : LET a == Ages(given[i][1])
                          IN  /\ a.stir >= INIT_STIRS
                              /\ a.blocks < RESEED * ((MaxUnits + HALF - 1) \div HALF)

(* What rng_bytes gives out is seeded, given once and forgotten.           *)
OutputFresh == Erased /\ Seeded
=============================================================================
