----------------------------- MODULE GiftVerifier -----------------------------
(***************************************************************************)
(* verify_gift64_four_round_trail of shared/ciphers/gift64.py: the issues  *)
(* it finds in a decoded trail, and the weight it recomputes, from the     *)
(* difference distribution of one S-box.  Width, number of rounds and bit  *)
(* permutation are parameters; the S-box is the one of GIFT.  The cipher's *)
(* round function is defined next to it, for what a verdict means.         *)
(***************************************************************************)
EXTENDS SolverContract, Sequences, FiniteSets, Functions

CONSTANTS
  Nibbles,       \* GIFT64_STATE_NIBBLES
  Rounds,        \* GIFT64_BASELINE_ROUNDS
  Permutation    \* GIFT64_PERMUTATION

Bits == 0 .. 4 * Nibbles - 1

ASSUME VerifierAssumption ==
  /\ Nibbles \in Nat \ {0} /\ Rounds \in Nat \ {0}
  /\ Permutation \in [Bits -> Bits]
  /\ \A i, j \in Bits : Permutation[i] = Permutation[j] => i = j

Nibble == 0 .. 15
State == [0 .. Nibbles - 1 -> Nibble]

\* A round of a TrailRecord; its index is its place, which decoding has checked.
TrailRound == [input : State, output : State]

GIFT64_SBOX == <<1, 10, 4, 12, 6, 15, 3, 9, 2, 13, 11, 7, 5, 0, 8, 14>>
Sbox(x) == GIFT64_SBOX[x + 1]

\* Bit 0 of a nibble is its highest, in the order of the state's bits.
NibbleBit(nibble, b) == (nibble \div 2 ^ (3 - b)) % 2
FromBits(bit) == 8 * bit[0] + 4 * bit[1] + 2 * bit[2] + bit[3]
Xor ==
  [x \in Nibble |-> [y \in Nibble |->
     FromBits([b \in 0 .. 3 |-> (NibbleBit(x, b) + NibbleBit(y, b)) % 2])]]

\* _build_ddt
GIFT64_DDT ==
  [a \in Nibble |-> [b \in Nibble |->
     Cardinality({x \in Nibble : Xor[Sbox(x)][Sbox(Xor[x][a])] = b})]]

Components(integral, decimal) ==
  [integral_weight |-> integral, decimal_weight_count |-> decimal]

\* transition_weight, of the count in the table.
TransitionWeight(count) ==
  CASE count = 16 -> Components(0, 0)
    [] count = 6 -> Components(1, 1)
    [] count = 4 -> Components(2, 0)
    [] count = 2 -> Components(3, 0)

\* _nibbles_to_bits, _bits_to_nibbles
StateBits(state) == [i \in Bits |-> NibbleBit(state[i \div 4], i % 4)]
StateNibbles(bits) ==
  [k \in 0 .. Nibbles - 1 |-> FromBits([b \in 0 .. 3 |-> bits[4 * k + b]])]

LogicalOutput_Forward(output) ==
  LET bits == StateBits(output)
  IN  StateNibbles([i \in Bits |-> bits[CHOOSE j \in Bits : Permutation[j] = i]])

\* logical_sbox_output_from_permuted_state
LogicalOutput(output) ==
  LET bits == StateBits(output)
  IN  StateNibbles([i \in Bits |-> bits[Permutation[i]]])

\* Every S-box of every round, and the table entry of its transition.
Sboxes(rounds) == (DOMAIN rounds) \X (0 .. Nibbles - 1)
Count(rounds, sbox) ==
  LET round == rounds[sbox[1]]
  IN  GIFT64_DDT[round.input[sbox[2]]][LogicalOutput(round.output)[sbox[2]]]

\* recomputed_components: impossible transitions add nothing.
ObjectiveComponents(rounds) ==
  LET possible == {s \in Sboxes(rounds) : Count(rounds, s) # 0}
      Total(name) == SumFunction([s \in possible |-> TransitionWeight(Count(rounds, s))[name]])
  IN  Components(Total("integral_weight"), Total("decimal_weight_count"))

ZeroState == [k \in 0 .. Nibbles - 1 |-> 0]

\* The codes of the issues that the trail has on its own.
TrailIssues(trail) ==
  LET rounds == trail.rounds
      found == [wrong_cipher |-> trail.cipher # "GIFT-64",
                round_count |-> Len(rounds) # Rounds,
                zero_input |-> rounds[1].input = ZeroState,
                round_continuity |->
                  \E i \in 1 .. Len(rounds) - 1 : rounds[i].output # rounds[i + 1].input,
                invalid_sbox_transition |->
                  \E s \in Sboxes(rounds) : Count(rounds, s) = 0]
  IN  {code \in DOMAIN found : found[code]}

\* Differences a request fixes are sets of at most one state.
FixedIssues(rounds, fixed) ==
  LET found == [fixed_input_mismatch |-> \E d \in fixed.input : rounds[1].input # d,
                fixed_output_mismatch |-> \E d \in fixed.output : rounds[Len(rounds)].output # d]
  IN  {code \in DOMAIN found : found[code]}

\* verify_gift64_four_round_trail
Verify(trail, request) ==
  LET weight == ObjectiveComponents(trail.rounds)
  IN  [issues |-> TrailIssues(trail) \cup FixedIssues(trail.rounds, request.fixed)
                    \cup ContractIssues(weight, request.contract),
       objective_components |-> weight]

------------------------------------------------------------------------------
(* What the verdict is about: GIFT itself, without its round keys and       *)
(* constants, which no difference depends on.                               *)

RoundFunction ==
  [x \in State |->
     LET bits == StateBits([k \in 0 .. Nibbles - 1 |-> Sbox(x[k])])
     IN  StateNibbles([j \in Bits |-> bits[CHOOSE i \in Bits : Permutation[i] = j]])]

StateXor(x, y) == [k \in 0 .. Nibbles - 1 |-> Xor[x[k]][y[k]]]

\* From x and x xor the input difference, the round leads to its output difference.
Follows(x, round) ==
  StateXor(RoundFunction[x], RoundFunction[StateXor(x, round.input)]) = round.output

IsCharacteristic(rounds) ==
  /\ Len(rounds) = Rounds
  /\ rounds[1].input # ZeroState
  /\ \A i \in 1 .. Rounds - 1 : rounds[i].output = rounds[i + 1].input
  /\ \A i \in 1 .. Rounds : \E x \in State : Follows(x, rounds[i])

Product(f) == FoldFunction(LAMBDA m, n : m * n, 1, f)
Power(base, n) == Product([i \in 1 .. n |-> base])

\* The product of the probabilities of the rounds is 2^-integral * (3/4)^decimal.
IsWeightOf(weight, rounds) ==
  Product([i \in 1 .. Rounds |-> Cardinality({x \in State : Follows(x, rounds[i])})])
     * Power(2, weight.integral_weight) * Power(4, weight.decimal_weight_count)
    = Power(16, Nibbles * Rounds) * Power(3, weight.decimal_weight_count)
==============================================================================
