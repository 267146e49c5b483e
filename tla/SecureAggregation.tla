------------------------- MODULE SecureAggregation -------------------------
(***************************************************************************)
(* One tensor of the training rounds: the clients of services/fl_edge      *)
(* train privately, SMPCFedAvg of services/fl_coordinator looks at what    *)
(* arrives, and AdditiveSMPCAggregator adds it up in shares, modulo a      *)
(* prime.                                                                  *)
(*                                                                         *)
(* A tensor is one number in units of 1/scale_factor.  The party sums are  *)
(* tasks of one event loop and finish in any order; the random shares are  *)
(* any numbers below the modulus.                                          *)
(***************************************************************************)
EXTENDS Integers, FiniteSets, FiniteSetsExt

CONSTANTS
  Client,
  Party,       \* the virtual parties
  LastParty,   \* the one whose share makes the sum right
  P,           \* prime_modulus
  MinClients,  \* min_clients
  Value,       \* bound: trained values
  Spacing,     \* the distances between floats that follow each other: powers of two
  SingleLimit, \* 2^24: the integers up to it are float32
  DoubleLimit, \* 2^53, of float64
  Misshapen,   \* an update of another shape or length
  None

\* The modulus is 2^61 - 1.  Were it even, half of it would be two numbers.
ASSUME AggregationAssumption ==
  /\ P \in Nat /\ P % 2 = 1 /\ MinClients \in Nat
  /\ IsFiniteSet(Client) /\ IsFiniteSet(Party) /\ LastParty \in Party
  /\ Value \subseteq Int /\ {Misshapen, None} \cap Int = {} /\ Misshapen # None

\* There are floats for every number below the modulus.
ASSUME FloatAssumption ==
  /\ Spacing \subseteq Nat \ {0} /\ 1 \in Spacing
  /\ \A s \in Spacing \ {1} : \E t \in Spacing : s = 2 * t
  /\ SingleLimit \in Nat \ {0} /\ DoubleLimit \in Nat /\ SingleLimit < DoubleLimit
  /\ \E s \in Spacing : P <= SingleLimit * s

VARIABLES
  phase,      \* fit, sum, averaged
  fitted,     \* clients whose fit is over
  update,     \* what each client has returned in this round
  shares,     \* for each party, the share of each client
  sums,       \* the party sums that are done
  outcome     \* of the last aggregation: a sum and by how many it is divided, or None

aggregationVars == <<phase, fitted, update, shares, sums, outcome>>

Half == P \div 2

NoShares == [p \in Party |-> [c \in Client |-> 0]]

AggregationInit ==
  /\ phase = "fit" /\ fitted = {}
  /\ update = [c \in Client |-> None]
  /\ shares = NoShares /\ sums = [p \in Party |-> None]
  /\ outcome = None

\* fit: the parameters it is given are the last average, or another number of
\* tensors than it has; the training is private, or fails; a failure returns nothing.
Fit(c) ==
  /\ phase = "fit" /\ c \notin fitted
  /\ fitted' = fitted \cup {c}
  /\ \/ \E v \in Value \cup {Misshapen} : update' = [update EXCEPT ![c] = v]
     \/ UNCHANGED update
  /\ UNCHANGED <<phase, shares, sums, outcome>>

Results == {c \in Client : update[c] # None}

SumOf(values, S) == MapThenSumSet(LAMBDA x : values[x], S)

Encode(v) == v % P

\* The limit is Half - 1, that is 2^60 - 2, but is compared as a float64, which has
\* 53 bits for it: as 2^60, that is Half + 1.
Limit == Half + 1

Fits(v) == v # Misshapen /\ v \in -Limit..Limit

NewRound ==
  /\ phase' = "fit" /\ fitted' = {} /\ update' = [c \in Client |-> None]
  /\ shares' = NoShares /\ sums' = [p \in Party |-> None]

\* aggregate_fit up to the encoding: without results nothing is done, and what is
\* malformed, too few or too large is an error, after which the model stays as it is.
Refuse ==
  /\ phase = "fit" /\ fitted = Client
  /\ Cardinality(Results) < MinClients \/ \E c \in Results : ~Fits(update[c])
  /\ outcome' = None /\ NewRound

LastShare(c, random) ==
  (Encode(update[c])
     - SumOf([q \in Party \ {LastParty} |-> random[q][c]], Party \ {LastParty})) % P

\* What secrets.randbelow may return, for every party but the last.
Randomness == [Party \ {LastParty} -> [Results -> 0..P - 1]]

\* _split_into_shares for every client.
SplitIntoShares(random) ==
  [p \in Party |-> IF p # LastParty THEN random[p] ELSE [c \in Results |-> LastShare(c, random)]]

Share ==
  /\ phase = "fit" /\ fitted = Client
  /\ Cardinality(Results) >= MinClients /\ \A c \in Results : Fits(update[c])
  /\ \E random \in Randomness : shares' = SplitIntoShares(random)
  /\ phase' = "sum"
  /\ UNCHANGED <<fitted, update, sums, outcome>>

PartySum(p) ==
  /\ phase = "sum" /\ sums[p] = None
  /\ sums' = [sums EXCEPT ![p] = SumOf(shares[p], Results) % P]
  /\ UNCHANGED <<phase, fitted, update, shares, outcome>>

Size(n) == IF n < 0 THEN -n ELSE n

\* The least distance between floats with which n is in reach.
SpacingAt(n, limit) ==
  CHOOSE s \in Spacing :
    /\ Size(n) <= limit * s
    /\ \A t \in Spacing : Size(n) <= limit * t => s <= t

\* The multiple of s nearest to n, and the even one of two.
Nearest(n, s) ==
  IF 2 * (n % s) < s \/ (2 * (n % s) = s /\ (n \div s) % 2 = 0) THEN s * (n \div s)
  ELSE s * (n \div s + 1)

Rounded(n, limit) == Nearest(n, SpacingAt(n, limit))

\* Mistake: half the modulus counts as negative.
SignedFromHalf(n) == IF n >= Half THEN n - P ELSE n

Signed(n) == IF n > Half THEN n - P ELSE n

\* A float64 first, which the division by the scale only shifts, then a float32.
Decode(n) == Rounded(Rounded(Signed(n), DoubleLimit), SingleLimit)

\* The sum is decoded, and divided by the number of clients whatever each had.
Reconstruct ==
  /\ phase = "sum" /\ \A p \in Party : sums[p] # None
  /\ phase' = "averaged"
  /\ outcome' = [sum |-> Decode(SumOf(sums, Party) % P),
                 clients |-> Cardinality(Results)]
  /\ UNCHANGED <<fitted, update, shares, sums>>

NextRound ==
  /\ phase = "averaged" /\ outcome' = None /\ NewRound

AggregationNext ==
  \/ Refuse \/ Share \/ Reconstruct \/ NextRound
  \/ \E c \in Client : Fit(c)
  \/ \E p \in Party : PartySum(p)

AggregationSpec == AggregationInit /\ [][AggregationNext]_aggregationVars

-----------------------------------------------------------------------------
AggregationTypeOK ==
  /\ phase \in {"fit", "sum", "averaged"} /\ fitted \subseteq Client
  /\ \A c \in Client : update[c] \in Value \cup {None, Misshapen}
  /\ \A p \in Party : sums[p] = None \/ sums[p] \in 0..P - 1

TrueSum == SumOf(update, Results)

\* What comes out is the sum of what went in, for negative values and values at
\* the limit too and whatever the shares, if that sum is within half the modulus:
\* exactly the sum if a float32 holds every integer up to it, and otherwise off by
\* at most what the two roundings may add, two parts in SingleLimit.  And it is
\* divided by the clients that took part.
SumIsExact ==
  phase = "averaged" =>
    /\ TrueSum \in -Half..Half =>
         /\ Size(TrueSum) <= SingleLimit => outcome.sum = TrueSum
         /\ SingleLimit * Size(outcome.sum - TrueSum) <= 2 * Size(TrueSum)
    /\ outcome.clients = Cardinality(Results)
=============================================================================
