------------------------------ MODULE Consensus ------------------------------
(***************************************************************************)
(* The rules that Ethash and ConsensusEngineBase check a header by.        *)
(***************************************************************************)
EXTENDS Integers, FiniteSetsExt

CONSTANTS
  Eip1559Block, HomesteadFormula, ByzantiumFormula,  \* numbers of blocks
  DifficultyBomb,    \* delay_to, or a number that is never reached
  InitialBaseFee     \* param::INITIAL_BASE_FEE

ASSUME RuleAssumption ==
  /\ {Eip1559Block, HomesteadFormula, ByzantiumFormula, DifficultyBomb} \subseteq Nat
  /\ InitialBaseFee \in Nat \ {0}

ELASTICITY_MULTIPLIER == 2
BASE_FEE_MAX_CHANGE_DENOMINATOR == 8
MIN_DIFFICULTY == 131072

GasTarget(h) == h.gasLimit \div ELASTICITY_MULTIPLIER

\* expected_base_fee_per_gas; 0 stands for no base fee before the fork.
ExpectedBaseFee(h, parent) ==
  LET target == GasTarget(parent)
      fee == parent.baseFee
      Delta(d) == ((fee * d) \div target) \div BASE_FEE_MAX_CHANGE_DENOMINATOR
  IN IF h.number < Eip1559Block THEN 0
     ELSE IF h.number = Eip1559Block THEN InitialBaseFee
     ELSE IF parent.gasUsed = target THEN fee
     ELSE IF parent.gasUsed > target
     THEN fee + Max({1, Delta(parent.gasUsed - target)})
     ELSE Max({0, fee - Delta(target - parent.gasUsed)})

\* ConsensusEngineBase::validate_block_header at the time `now`; extra_data is
\* left out.
ValidHeaderBase(h, parent, now) ==
  LET limit == IF h.number = Eip1559Block
               THEN parent.gasLimit * ELASTICITY_MULTIPLIER ELSE parent.gasLimit
      delta == IF h.gasLimit > limit THEN h.gasLimit - limit ELSE limit - h.gasLimit
  IN /\ h.timestamp <= now
     /\ h.gasUsed <= h.gasLimit
     /\ h.gasLimit >= 5000
     /\ h.timestamp > parent.timestamp
     /\ delta < limit \div 1024
     /\ h.baseFee = ExpectedBaseFee(h, parent)

\* canonical_difficulty for a header whose parent's timestamp is lower.
CanonicalDifficulty(h, parent) ==
  LET x == parent.difficulty \div 2048
      dt == h.timestamp - parent.timestamp
      y == IF parent.ommers = {} THEN 1 ELSE 2
      z == IF h.number >= ByzantiumFormula THEN dt \div 9 ELSE dt \div 10
      formula ==
        IF h.number >= ByzantiumFormula
        THEN parent.difficulty - 99 * x + Max({0, 99 + y - z}) * x
        ELSE IF h.number >= HomesteadFormula
        THEN parent.difficulty - 99 * x + Max({0, 100 - z}) * x
        ELSE IF dt < 13 THEN parent.difficulty + x ELSE parent.difficulty - x
      n == (IF h.number > DifficultyBomb THEN h.number - DifficultyBomb ELSE 0)
           \div 100000
  IN Max({formula + (IF n >= 2 THEN 2 ^ (n - 2) ELSE 0), MIN_DIFFICULTY})

\* What Ethash::validate_block_header adds.
ValidDifficulty(h, parent) == h.difficulty = CanonicalDifficulty(h, parent)

\* finalize: the reward of an ommer is this many eighths of the block reward.
OmmerShare(ommer, number) == 8 + ommer - number
=============================================================================
