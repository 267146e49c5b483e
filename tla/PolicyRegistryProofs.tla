------------------------ MODULE PolicyRegistryProofs ------------------------
(***************************************************************************)
(* What PolicyRegistry guarantees for every set of accounts, policies,     *)
(* payloads and nonces.  One lemma extracts from an accepted call the two  *)
(* guardians whose signatures it carried; the rest follows action by       *)
(* action.                                                                 *)
(***************************************************************************)
EXTENDS PolicyRegistry, FiniteSetTheorems, TLAPS

\* Every constructor argument that does not revert gives three guardians.
LEMMA InitTyped == Init => TypeOK /\ GuardiansDistinct
  BY RegistryAssumption
  DEF Init, TypeOK, Ownership!Init, Ownership!TypeOK, GuardiansDistinct, Slot, Policy, NoPolicy, Signature, Payload

\* A call that passes _requireThresholdSignatures carries, at its first two
\* places, signatures of two different guardians over this payload.
LEMMA QuorumOfCall ==
  ASSUME TypeOK, NEW payload \in Requested, NEW sigs \in Calldata,
         ThresholdMet(payload, sigs)
  PROVE  \E a, b \in SignedBy(payload) \cap Guardians : a # b
<1> DEFINE available == signed \cup {Malformed}
           who(i) == RecoverSigner(payload, sigs[i])
<1>1. PICK n \in 0..MaxSignatures : sigs \in [1..n -> available]
  BY DEF Calldata
<1>2. n \in Nat /\ Len(sigs) = n /\ n >= 2
  BY <1>1, RegistryAssumption DEF ThresholdMet, Required
<1>3. sigs[1] \in available /\ sigs[2] \in available
  BY <1>1, <1>2
<1>4. who(1) \in Guardians /\ who(2) \in Guardians /\ who(1) # who(2)
  BY DEF ThresholdMet, Required
<1>5. Guardians \subseteq Account
  BY DEF Guardians, TypeOK
<1>6. ASSUME NEW sig \in available, RecoverSigner(payload, sig) \in Account
      PROVE  RecoverSigner(payload, sig) \in SignedBy(payload)
  <2>1. sig \in signed /\ sig.digest = payload /\ RecoverSigner(payload, sig) = sig.signer
    BY <1>6, RegistryAssumption DEF RecoverSigner
  <2>2. sig \in Signature
    BY <2>1 DEF TypeOK
  <2>3. sig = [signer |-> sig.signer, digest |-> payload]
    BY <2>1, <2>2 DEF Signature
  <2>. QED
    BY <2>1, <2>3, <1>6 DEF SignedBy
<1>7. who(1) \in SignedBy(payload) /\ who(2) \in SignedBy(payload)
  BY <1>3, <1>4, <1>5, <1>6
<1>. QED
  BY <1>4, <1>7

-----------------------------------------------------------------------------
(* The type invariant, with the guardians' distinctness. *)

LEMMA TypedStep ==
  TypeOK /\ GuardiansDistinct /\ [Next]_vars => (TypeOK /\ GuardiansDistinct)'
<1> SUFFICES ASSUME TypeOK, GuardiansDistinct, [Next]_vars
             PROVE  (TypeOK /\ GuardiansDistinct)'
  OBVIOUS
<1> USE RegistryAssumption
<1>1. ASSUME NEW payload \in Requested, NEW sigs \in Calldata,
             UpsertPolicy(payload, sigs) \/ RevokePolicy(payload, sigs)
      PROVE  (TypeOK /\ GuardiansDistinct)'
  <2>1. payload \in Payload /\ payload.id \in PolicyId \cup {ZeroId} /\ payload.nonce \in Nonce
    BY DEF Payload
  <2>2. policies[payload.id] \in Policy /\ policies[payload.id].version + 1 \in 0..MaxVersion
    BY <2>1, <1>1 DEF TypeOK, Policy, UpsertPolicy, RevokePolicy, Accepted
  <2>3. policies' \in [PolicyId \cup {ZeroId} -> Policy]
    <3>1. CASE UpsertPolicy(payload, sigs)
      <4>1. payload.content \in Content
        BY <3>1 DEF UpsertPolicy, Payload
      <4>. QED
        BY <2>1, <2>2, <3>1, <4>1 DEF UpsertPolicy, TypeOK, Policy
    <3>2. CASE RevokePolicy(payload, sigs)
      BY <2>1, <2>2, <3>2 DEF RevokePolicy, TypeOK, Policy
    <3>. QED
      BY <3>1, <3>2, <1>1
  <2>. QED
    BY <1>1, <2>1, <2>3 DEF UpsertPolicy, RevokePolicy, TypeOK, Ownership!TypeOK, GuardiansDistinct
<1>2. ASSUME NEW a \in Account, NEW payload \in Requested, Sign(a, payload)
      PROVE  (TypeOK /\ GuardiansDistinct)'
  BY <1>2 DEF Sign, TypeOK, Ownership!TypeOK, GuardiansDistinct, Signature
<1>3. ASSUME NEW caller \in Administrator, NEW i \in 0..3, NEW a \in Account \cup {ZeroAddress},
             SetGuardian(caller, i, a)
      PROVE  (TypeOK /\ GuardiansDistinct)'
  <2>1. guardians' \in [Slot -> Account]
    BY <1>3 DEF SetGuardian, TypeOK
  <2>2. IsInjective(guardians')
    BY <1>3, <2>1 DEF SetGuardian, TypeOK, Ownership!TypeOK, GuardiansDistinct, IsInjective
  <2>. QED
    BY <1>3, <2>1, <2>2 DEF SetGuardian, TypeOK, Ownership!TypeOK, GuardiansDistinct
<1>4. ASSUME Ownership!Next, UNCHANGED <<guardians, policies, usedNonces, signed>>
      PROVE  (TypeOK /\ GuardiansDistinct)'
  <2>1. Ownership!TypeOK'
    BY <1>4 DEF Ownership!Next, Ownership!TransferOwnership, Ownership!AcceptOwnership,
               Ownership!RenounceOwnership, Ownership!TypeOK, TypeOK
  <2>. QED
    BY <1>4, <2>1 DEF TypeOK, Ownership!TypeOK, GuardiansDistinct
<1>5. CASE UNCHANGED vars
  BY <1>5 DEF vars, TypeOK, Ownership!TypeOK, GuardiansDistinct
<1>. QED
  BY <1>1, <1>2, <1>3, <1>4, <1>5 DEF Next, Administer

\* Every reachable state of the contract is well typed; in particular owner
\* and guardian slots never hold an address that was not given to them.
THEOREM TypeCorrect == Spec => []TypeOK
<1>1. Init => TypeOK /\ GuardiansDistinct
  BY InitTyped
<1>2. TypeOK /\ GuardiansDistinct /\ [Next]_vars => (TypeOK /\ GuardiansDistinct)'
  BY TypedStep
<1>. QED
  BY <1>1, <1>2, PTL DEF Spec

\* The constructor and setGuardian together keep the three guardians different
\* from each other, whatever the order of rotations.
THEOREM GuardiansStayDistinct == Spec => []GuardiansDistinct
<1>1. Init => TypeOK /\ GuardiansDistinct
  BY InitTyped
<1>2. TypeOK /\ GuardiansDistinct /\ [Next]_vars => (TypeOK /\ GuardiansDistinct)'
  BY TypedStep
<1>. QED
  BY <1>1, <1>2, PTL DEF Spec

-----------------------------------------------------------------------------
(* Policies are backed by signatures. *)

\* What an executed call does to the state, and who had signed it.
LEMMA EffectOfCall ==
  ASSUME TypeOK, NEW payload \in Requested, NEW sigs \in Calldata,
         UpsertPolicy(payload, sigs) \/ RevokePolicy(payload, sigs)
  PROVE  /\ payload \in Payload
         /\ payload.nonce \notin usedNonces
         /\ usedNonces' = usedNonces \cup {payload.nonce}
         /\ \E a, b \in SignedBy(payload) \cap Guardians : a # b
         /\ signed' = signed
         /\ guardians' = guardians
         /\ payload.id \in PolicyId
         /\ policies' \in [PolicyId \cup {ZeroId} -> Policy] =>
              /\ policies'[payload.id].active <=> payload.kind = "upsert"
              /\ payload.kind = "upsert" => policies'[payload.id].content = payload.content
              /\ payload.kind = "revoke" => payload.content = NoContent
              /\ \A p \in PolicyId \ {payload.id} : policies'[p] = policies[p]
<1>1. payload \in Payload /\ payload.id \in PolicyId
  BY RegistryAssumption DEF Payload, UpsertPolicy, RevokePolicy, Accepted
<1>2. ThresholdMet(payload, sigs)
  BY DEF UpsertPolicy, RevokePolicy, Accepted
<1>3. \E a, b \in SignedBy(payload) \cap Guardians : a # b
  BY <1>2, QuorumOfCall
<1>4. payload.kind = "revoke" => payload.content = NoContent
  BY <1>1 DEF Payload
<1>5. /\ policies'[payload.id].active <=> payload.kind = "upsert"
      /\ payload.kind = "upsert" => policies'[payload.id].content = payload.content
      /\ \A p \in PolicyId \ {payload.id} : policies'[p] = policies[p]
  <2>1. CASE UpsertPolicy(payload, sigs)
    <3>1. /\ policies'[payload.id] =
               [content |-> payload.content, version |-> policies[payload.id].version + 1,
                active |-> TRUE]
          /\ \A p \in PolicyId \ {payload.id} : policies'[p] = policies[p]
          /\ payload.kind = "upsert"
      BY <1>1, <2>1 DEF UpsertPolicy, TypeOK
    <3>. QED
      BY <3>1
  <2>2. CASE RevokePolicy(payload, sigs)
    <3>1. /\ policies'[payload.id] =
               [content |-> policies[payload.id].content,
                version |-> policies[payload.id].version + 1, active |-> FALSE]
          /\ \A p \in PolicyId \ {payload.id} : policies'[p] = policies[p]
          /\ payload.kind = "revoke"
      BY <1>1, <2>2 DEF RevokePolicy, TypeOK
    <3>. QED
      BY <3>1
  <2>. QED
    BY <2>1, <2>2
<1>6. /\ payload.nonce \notin usedNonces
      /\ usedNonces' = usedNonces \cup {payload.nonce}
      /\ signed' = signed /\ guardians' = guardians
  BY DEF UpsertPolicy, RevokePolicy, Accepted
<1>. QED
  BY <1>1, <1>3, <1>4, <1>5, <1>6

\* A step that executes no call leaves the policy table and the nonces alone
\* and only adds signatures.
LEMMA OtherSteps ==
  ASSUME Administer
         \/ (\E a \in Account, payload \in Requested : Sign(a, payload))
         \/ UNCHANGED vars
  PROVE  policies' = policies /\ usedNonces' = usedNonces /\ signed \subseteq signed'
BY DEF Administer, SetGuardian, Sign, vars

LEMMA BackedStep == TypeOK /\ TypeOK' /\ PolicyBacked /\ [Next]_vars => PolicyBacked'
<1> SUFFICES ASSUME TypeOK, TypeOK', PolicyBacked, [Next]_vars,
                    NEW p \in PolicyId, policies'[p].version > 0
             PROVE  \E payload \in Requested :
                      /\ payload.id = p
                      /\ payload.nonce \in usedNonces'
                      /\ payload.kind = IF policies'[p].active THEN "upsert" ELSE "revoke"
                      /\ policies'[p].active => payload.content = policies'[p].content
                      /\ \E a, b \in SignedBy(payload)' : a # b
  BY DEF PolicyBacked
<1>1. ASSUME policies'[p] = policies[p], usedNonces \subseteq usedNonces', signed \subseteq signed'
      PROVE  \E payload \in Requested :
               /\ payload.id = p
               /\ payload.nonce \in usedNonces'
               /\ payload.kind = IF policies'[p].active THEN "upsert" ELSE "revoke"
               /\ policies'[p].active => payload.content = policies'[p].content
               /\ \E a, b \in SignedBy(payload)' : a # b
  <2>1. PICK payload \in Requested :
               /\ payload.id = p
               /\ payload.nonce \in usedNonces
               /\ payload.kind = IF policies[p].active THEN "upsert" ELSE "revoke"
               /\ policies[p].active => payload.content = policies[p].content
               /\ \E a, b \in SignedBy(payload) : a # b
    BY <1>1 DEF PolicyBacked
  <2>2. SignedBy(payload) \subseteq SignedBy(payload)'
    BY <1>1 DEF SignedBy
  <2>3. \E a, b \in SignedBy(payload)' : a # b
    BY <2>1, <2>2
  <2>. QED
    BY <2>1, <2>3, <1>1
<1>2. ASSUME NEW payload \in Requested, NEW sigs \in Calldata,
             UpsertPolicy(payload, sigs) \/ RevokePolicy(payload, sigs)
      PROVE  \E q \in Requested :
               /\ q.id = p
               /\ q.nonce \in usedNonces'
               /\ q.kind = IF policies'[p].active THEN "upsert" ELSE "revoke"
               /\ policies'[p].active => q.content = policies'[p].content
               /\ \E a, b \in SignedBy(q)' : a # b
  <2>1. policies' \in [PolicyId \cup {ZeroId} -> Policy]
    BY DEF TypeOK
  <2>2. /\ payload \in Payload
        /\ usedNonces' = usedNonces \cup {payload.nonce}
        /\ \E a, b \in SignedBy(payload) : a # b
        /\ signed' = signed
        /\ policies'[payload.id].active <=> payload.kind = "upsert"
        /\ payload.kind = "upsert" => policies'[payload.id].content = payload.content
        /\ \A q \in PolicyId \ {payload.id} : policies'[q] = policies[q]
    BY <1>2, <2>1, EffectOfCall
  <2>3. CASE p # payload.id
    BY <1>1, <2>2, <2>3
  <2>4. CASE p = payload.id
    <3>1. payload.kind \in {"upsert", "revoke"}
      BY <2>2 DEF Payload
    <3>2. SignedBy(payload)' = SignedBy(payload)
      BY <2>2 DEF SignedBy
    <3>. QED
      BY <2>2, <2>4, <3>1, <3>2
  <2>. QED
    BY <2>3, <2>4
<1>3. CASE Administer
           \/ (\E a \in Account, payload \in Requested : Sign(a, payload))
           \/ UNCHANGED vars
  BY <1>1, <1>3, OtherSteps
<1>. QED
  BY <1>2, <1>3 DEF Next

\* Whatever was rotated, replayed or competed for: the value every written
\* policy shows is one that two different accounts signed for, under a nonce
\* now spent.
THEOREM PoliciesBacked == Spec => []PolicyBacked
<1>1. Init => PolicyBacked
  BY DEF Init, PolicyBacked, NoPolicy
<1>2. TypeOK /\ TypeOK' /\ PolicyBacked /\ [Next]_vars => PolicyBacked'
  BY BackedStep
<1>. QED
  BY <1>1, <1>2, TypeCorrect, PTL DEF Spec

-----------------------------------------------------------------------------
(* Every change is made on the word of two guardians in office. *)

LEMMA ChangeStep ==
  ASSUME TypeOK, TypeOK', [Next]_vars, NEW p \in PolicyId, policies'[p] # policies[p]
  PROVE  \E payload \in Requested :
           /\ payload.id = p
           /\ payload.nonce \in usedNonces' \ usedNonces
           /\ policies'[p].active <=> payload.kind = "upsert"
           /\ \E a, b \in SignedBy(payload) \cap Guardians : a # b
<1>1. PICK payload \in Requested, sigs \in Calldata :
         UpsertPolicy(payload, sigs) \/ RevokePolicy(payload, sigs)
  BY OtherSteps DEF Next
<1>2. policies' \in [PolicyId \cup {ZeroId} -> Policy]
  BY DEF TypeOK
<1>3. /\ payload.nonce \in usedNonces' \ usedNonces
      /\ policies'[payload.id].active <=> payload.kind = "upsert"
      /\ \E a, b \in SignedBy(payload) \cap Guardians : a # b
      /\ \A q \in PolicyId \ {payload.id} : policies'[q] = policies[q]
  BY <1>1, <1>2, EffectOfCall
<1>. QED
  BY <1>3

\* Authorisation at the moment of the change, by guardians of that moment, for
\* the payload that takes effect.
THEOREM ChangesHaveQuorum == Spec => ChangeHasQuorum
<1>1. TypeOK /\ TypeOK' /\ [Next]_vars =>
        [\A p \in PolicyId : policies'[p] # policies[p] =>
           \E payload \in Requested :
             /\ payload.id = p
             /\ payload.nonce \in usedNonces' \ usedNonces
             /\ policies'[p].active <=> payload.kind = "upsert"
             /\ \E a, b \in SignedBy(payload) \cap Guardians : a # b]_vars
  BY ChangeStep
<1>. QED
  BY <1>1, TypeCorrect, PTL DEF Spec, ChangeHasQuorum

-----------------------------------------------------------------------------
(* The registry implements GuardianQuorum. *)

LEMMA TwoElements ==
  ASSUME NEW S, NEW a \in S, NEW b \in S, a # b
  PROVE  Cardinality({a, b}) = 2
<1>1. IsFiniteSet({a}) /\ Cardinality({a}) = 1
  BY FS_Singleton
<1>2. b \notin {a} /\ {a, b} = {a} \cup {b}
  OBVIOUS
<1>. QED
  BY <1>1, <1>2, FS_AddElement, SMTT(30)

LEMMA CallEnacts ==
  ASSUME TypeOK, TypeOK', NEW payload \in Requested, NEW sigs \in Calldata,
         UpsertPolicy(payload, sigs) \/ RevokePolicy(payload, sigs)
  PROVE  Promise!Enact(payload)
<1>1. policies' \in [PolicyId \cup {ZeroId} -> Policy]
  BY DEF TypeOK
<1>2. /\ payload \in Payload
      /\ payload.id \in PolicyId
      /\ payload.nonce \notin usedNonces
      /\ usedNonces' = usedNonces \cup {payload.nonce}
      /\ \E a, b \in SignedBy(payload) \cap Guardians : a # b
      /\ signed' = signed /\ guardians' = guardians
      /\ policies'[payload.id].active <=> payload.kind = "upsert"
      /\ payload.kind = "upsert" => policies'[payload.id].content = payload.content
      /\ payload.kind = "revoke" => payload.content = NoContent
      /\ \A p \in PolicyId \ {payload.id} : policies'[p] = policies[p]
  BY <1>1, EffectOfCall
<1>3. \E voters \in {Q \in SUBSET Account : Cardinality(Q) >= Required} :
        /\ voters \subseteq Guardians
        /\ \A a \in voters : <<a, payload>> \in {<<s.signer, s.digest>> : s \in signed}
  <2>1. PICK a, b \in SignedBy(payload) \cap Guardians : a # b
    BY <1>2
  <2>2. Cardinality({a, b}) >= Required
    BY <2>1, TwoElements DEF Required
  <2>3. \A c \in {a, b} : [signer |-> c, digest |-> payload] \in signed
    BY DEF SignedBy
  <2>4. \A c \in {a, b} : <<c, payload>> \in {<<s.signer, s.digest>> : s \in signed}
    BY <2>3
  <2>5. {a, b} \subseteq Guardians /\ Guardians \subseteq Account
    BY <2>1 DEF Guardians, TypeOK
  <2>. QED
    BY <2>2, <2>4, <2>5
<1>4. payload.kind \in {"upsert", "revoke"}
  BY <1>2 DEF Payload
<1>5. [p \in PolicyId |-> IF policies'[p].active THEN policies'[p].content ELSE NoContent]
        = [[p \in PolicyId |-> IF policies[p].active THEN policies[p].content ELSE NoContent]
             EXCEPT ![payload.id] = payload.content]
  <2>1. (IF policies'[payload.id].active THEN policies'[payload.id].content ELSE NoContent)
          = payload.content
    BY <1>2, <1>4
  <2>. QED
    BY <1>2, <2>1
<1>6. Guardians' = Guardians
  BY <1>2 DEF Guardians
<1>. QED
  BY <1>2, <1>3, <1>5, <1>6 DEF Promise!Enact

LEMMA StepImplements ==
  ASSUME TypeOK, TypeOK', [Next]_vars
  PROVE  [Promise!Next]_(Promise!vars)
<1>1. ASSUME NEW payload \in Requested, NEW sigs \in Calldata,
             UpsertPolicy(payload, sigs) \/ RevokePolicy(payload, sigs)
      PROVE  Promise!Next
  BY <1>1, CallEnacts DEF Promise!Next
<1>2. ASSUME NEW a \in Account, NEW payload \in Requested, Sign(a, payload)
      PROVE  Promise!Next
  <2>1. {<<s.signer, s.digest>> : s \in signed'}
          = {<<s.signer, s.digest>> : s \in signed} \cup {<<a, payload>>}
    <3> DEFINE new == [signer |-> a, digest |-> payload]
    <3>1. signed' = signed \cup {new}
      BY <1>2 DEF Sign
    <3>2. new.signer = a /\ new.digest = payload
      OBVIOUS
    <3> HIDE DEF new
    <3>. QED
      BY <3>1, <3>2
  <2>2. policies' = policies /\ usedNonces' = usedNonces /\ Guardians' = Guardians
    BY <1>2 DEF Sign, Guardians
  <2>3. Promise!Approve(a, payload)
    BY <2>1, <2>2 DEF Promise!Approve
  <2>. QED
    BY <2>3 DEF Promise!Next
<1>3. ASSUME NEW caller \in Administrator, NEW i \in 0..3, NEW a \in Account \cup {ZeroAddress},
             SetGuardian(caller, i, a)
      PROVE  Promise!Next
  <2>1. Guardians' \in SUBSET Account
    BY DEF Guardians, TypeOK
  <2>2. Promise!ChangeMembers
    BY <1>3, <2>1 DEF SetGuardian, Promise!ChangeMembers
  <2>. QED
    BY <2>2 DEF Promise!Next
<1>4. ASSUME UNCHANGED <<guardians, policies, usedNonces, signed>>
      PROVE  UNCHANGED Promise!vars
  BY <1>4 DEF Promise!vars, Guardians
<1>5. CASE UNCHANGED vars
  BY <1>5 DEF vars, Promise!vars, Guardians
<1>. QED
  BY <1>1, <1>2, <1>3, <1>4, <1>5 DEF Next, Administer

\* Nonces, signature recovery, the loop and its early return come to nothing
\* more and nothing less than approval by two guardians in office.
THEOREM RegistryImplementsQuorum == Spec => ImplementsQuorum
<1>1. Init => Promise!Init
  <2>1. Init => TypeOK
    BY InitTyped
  <2>2. TypeOK => Guardians \in SUBSET Account
    BY DEF TypeOK, Guardians
  <2>. QED
    BY <2>1, <2>2 DEF Init, NoPolicy, Promise!Init
<1>2. TypeOK /\ TypeOK' /\ [Next]_vars => [Promise!Next]_(Promise!vars)
  BY StepImplements
<1>. QED
  BY <1>1, <1>2, TypeCorrect, PTL DEF Spec, ImplementsQuorum, Promise!Spec
=============================================================================
