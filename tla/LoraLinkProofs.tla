---------------------------- MODULE LoraLinkProofs ----------------------------
(***************************************************************************)
(* Proofs about LoraLink, for every set of rates and every number of join   *)
(* requests.                                                               *)
(***************************************************************************)
EXTENDS LoraLink, TLAPS

(* What the server has seen the device has used in this life, the request    *)
(* that is on the air apart, or has lost in a reset.  The server refuses    *)
(* only what it has seen.                                                  *)
Used == IF calling = "joining" THEN nonce - 1 ELSE nonce

NonceInv ==
  /\ last_nonce <= Used \/ last_nonce <= lost_nonce
  /\ calling = "rejected" => nonce <= lost_nonce

RadioInv ==
  Joining => /\ adr /\ (willing => rate = InitialRate)
             /\ mask = MaskFor(subband)

LoraInv == LoraTypeOK /\ NonceInv /\ RadioInv

(* What a channel of a mask is: build_us915_channel_mask() for one sub-band. *)
(* A number is made of its halves. *)
LEMMA Split2 ==
  ASSUME NEW i \in 0..7
  PROVE  i \div 2 \in 0..3 /\ i % 2 \in 0..1 /\ i = 2 * (i \div 2) + (i % 2)
<1>1. i \div 2 \in 0..3
  OBVIOUS
<1>2. i % 2 \in 0..1
  OBVIOUS
<1>3. i = 2 * (i \div 2) + (i % 2)
  OBVIOUS
<1>4. QED
  BY <1>1, <1>2, <1>3

LEMMA Split16 ==
  ASSUME NEW c \in 0..71
  PROVE  c \div 16 \in 0..4 /\ c % 16 \in 0..15 /\ c = 16 * (c \div 16) + (c % 16)
<1>1. c \div 16 \in 0..4
  OBVIOUS
<1>2. c % 16 \in 0..15
  OBVIOUS
<1>3. c = 16 * (c \div 16) + (c % 16)
  OBVIOUS
<1>4. QED
  BY <1>1, <1>2, <1>3

(* Eight bits from b on. *)
LEMMA Byte ==
  ASSUME NEW b \in Nat
  PROVE  {b + k : k \in 0..7} = b .. b + 7
<1>1. ASSUME NEW x \in b .. b + 7
      PROVE  x \in {b + k : k \in 0..7}
  <2>1. x - b \in 0..7 /\ x = b + (x - b)
    OBVIOUS
  <2>2. QED
    BY <2>1
<1>2. QED
  BY <1>1

LEMMA MaskEnables ==
  ASSUME NEW n \in 1..8
  PROVE  /\ MaskFor(n) \in [Word -> SUBSET Bit]
         /\ Enabled(MaskFor(n)) = 8 * (n - 1) .. 8 * n - 1 \cup {63 + n}
<1>1. PICK i \in 0..7 : i = n - 1
  OBVIOUS
<1>2. PICK q \in 0..3, p \in 0..1 : q = i \div 2 /\ p = i % 2 /\ i = 2 * q + p
  BY Split2
<1>3. \A w \in Word :
        MaskFor(n)[w] = IF w = q THEN 8 * p .. 8 * p + 7
                        ELSE IF w = 4 THEN {i} ELSE {}
  <2>1. {8 * (i % 2) + k : k \in 0..7} = 8 * p .. 8 * p + 7
    <3>1. {8 * p + k : k \in 0..7} = 8 * p .. 8 * p + 7
      BY Byte
    <3>2. QED
      BY <1>2, <3>1
  <2>2. \A w \in Word :
          MaskFor(n)[w] = IF w = i \div 2 THEN {8 * (i % 2) + k : k \in 0..7}
                          ELSE IF w = 4 THEN {i} ELSE {}
    BY <1>1 DEF MaskFor, Index
  <2>3. QED
    BY <1>2, <2>1, <2>2
<1>4. MaskFor(n) \in [Word -> SUBSET Bit]
  <2>1. 8 * p .. 8 * p + 7 \subseteq Bit /\ {i} \subseteq Bit /\ {} \subseteq Bit
    BY DEF Bit
  <2>2. \A w \in Word : MaskFor(n)[w] \in SUBSET Bit
    BY <1>3, <2>1
  <2>3. MaskFor(n) = [w \in Word |-> MaskFor(n)[w]]
    BY DEF MaskFor
  <2>4. QED
    BY <2>2, <2>3
<1>5. ASSUME NEW c \in Channel
      PROVE  c % 16 \in MaskFor(n)[c \div 16]
               <=> c \in 8 * i .. 8 * i + 7 \/ c = 64 + i
  <2>1. PICK w \in 0..4, b \in 0..15 :
          w = c \div 16 /\ b = c % 16 /\ c = 16 * w + b
    BY Split16 DEF Channel
  <2>2. w \in Word
    BY DEF Word
  <2>3. CASE w = q
    <3>1. b \in MaskFor(n)[w] <=> b \in 8 * p .. 8 * p + 7
      BY <1>3, <2>2, <2>3
    <3>2. b \in 8 * p .. 8 * p + 7 <=> c \in 8 * i .. 8 * i + 7
      BY <1>2, <2>1, <2>3
    <3>3. c < 64
      BY <2>1, <2>3
    <3>4. QED
      BY <2>1, <3>1, <3>2, <3>3
  <2>4. CASE w = 4
    <3>1. b \in MaskFor(n)[w] <=> b = i
      BY <1>3, <2>2, <2>4
    <3>2. QED
      BY <1>2, <2>1, <2>4, <3>1
  <2>5. CASE w # q /\ w # 4
    <3>1. b \notin MaskFor(n)[w]
      BY <1>3, <2>2, <2>5
    <3>2. QED
      BY <1>2, <2>1, <2>5, <3>1
  <2>6. QED
    BY <2>3, <2>4, <2>5
<1>6. \A c : c \in 8 * (n - 1) .. 8 * n - 1 \cup {63 + n}
               <=> c \in Channel /\ (c \in 8 * i .. 8 * i + 7 \/ c = 64 + i)
  BY <1>1 DEF Channel
<1>7. Enabled(MaskFor(n)) = 8 * (n - 1) .. 8 * n - 1 \cup {63 + n}
  BY <1>5, <1>6 DEF Enabled
<1>8. QED
  BY <1>4, <1>7

(* A rate that is set while ADR is off is the stack's to refuse.            *)
LEMMA PreparedRadio ==
  ASSUME NEW accepts \in BOOLEAN
  PROVE  /\ Prepared(accepts).adr = TRUE
         /\ Prepared(accepts).rate = IF accepts THEN InitialRate ELSE rate
BY DEF Prepared, EnableAdr, SetDatarate, DisableAdr

LEMMA AllWordsType == AllWords \in [Word -> SUBSET Bit]
BY DEF AllWords, Word, Bit

LEMMA LoraInvInit == LoraInit => LoraInv
<1>1. LoraInit => LoraTypeOK
  <2>1. LoraInit => /\ subband \in 1..8 /\ rate \in Rate
                /\ nonce \in 0..MaxNonce
                /\ stored_nonce \in 0..MaxNonce
                /\ last_nonce \in 0..MaxNonce
                /\ lost_nonce \in 0..MaxNonce
    BY LoraConstants DEF LoraInit
  <2>2. QED
    BY <2>1, AllWordsType DEF LoraInit, LoraTypeOK
<1>2. LoraInit => NonceInv /\ RadioInv
  BY DEF LoraInit, NonceInv, Used, RadioInv, Joining
<1>3. QED
  BY <1>1, <1>2 DEF LoraInv

LEMMA LoraInvStep == LoraInv /\ [LoraNext]_loraVars => LoraInv'
<1> SUFFICES ASSUME LoraInv, [LoraNext]_loraVars
             PROVE  LoraInv'
  OBVIOUS
<1> USE LoraConstants DEF LoraInv, LoraTypeOK, NonceInv, Used, RadioInv, Joining
<1>1. CASE Initialize
  BY <1>1 DEF Initialize, config, air, nonces
<1>2. CASE ConnectRefused
  BY <1>2 DEF ConnectRefused, config, air, nonces
<1>3. CASE BeginJoin
  <2>1. /\ calling = "nothing" /\ calling' = "joining" /\ nonce < MaxNonce
        /\ is_joined' = FALSE /\ nonce' = nonce + 1
        /\ willing' \in BOOLEAN /\ adr' = TRUE /\ mask' = MaskFor(subband)
        /\ rate' = IF willing' THEN InitialRate ELSE rate
        /\ UNCHANGED <<config, session, stored_nonce, last_nonce, lost_nonce>>
    BY <1>3, PreparedRadio DEF BeginJoin
  <2>2. mask' \in [Word -> SUBSET Bit]
    BY <2>1, MaskEnables
  <2>3. LoraTypeOK'
    <3>1. nonce' \in 0..MaxNonce
      BY <2>1
    <3>2. QED
      BY <2>1, <2>2, <3>1 DEF config
  <2>4. NonceInv'
    BY <2>1
  <2>5. QED
    BY <2>1, <2>3, <2>4 DEF config
<1>4. CASE ServerHears
  BY <1>4 DEF ServerHears, config, air
<1>5. CASE ServerRejects
  BY <1>5 DEF ServerRejects, config, air, nonces
<1>6. CASE SaveNonce
  BY <1>6 DEF SaveNonce, config, air
<1>7. CASE EndJoin
  BY <1>7 DEF EndJoin, config, air, nonces
<1>8. CASE NetworkMovesRate
  BY <1>8 DEF NetworkMovesRate, config, nonces
<1>9. CASE Reset
  <2>1. /\ calling' = "initialize" /\ is_joined' = FALSE /\ session' = FALSE
        /\ adr' = FALSE /\ rate' = RegionDefault /\ mask' \in [Word -> SUBSET Bit]
        /\ nonce' = stored_nonce
        /\ UNCHANGED <<config, willing, stored_nonce, last_nonce>>
        /\ lost_nonce' = IF last_nonce > stored_nonce THEN last_nonce
                         ELSE lost_nonce
    BY <1>9, AllWordsType DEF Reset, Restored
  <2>2. NonceInv'
    BY <2>1
  <2>3. LoraTypeOK'
    BY <2>1 DEF config
  <2>4. QED
    BY <2>1, <2>2, <2>3
<1>10. CASE UNCHANGED loraVars
  BY <1>10 DEF loraVars
<1>11. QED
  BY <1>1, <1>2, <1>3, <1>4, <1>5, <1>6, <1>7, <1>8, <1>9, <1>10
     DEF LoraNext, Connect, Server

(* connect() and what surrounds it keep every variable to its type. *)
THEOREM LoraTypes == LoraSpec => []LoraTypeOK
<1>1. LoraInv => LoraTypeOK
  BY DEF LoraInv
<1>2. QED
  BY <1>1, LoraInvInit, LoraInvStep, PTL DEF LoraSpec

(* connect() disables ADR before it sets the rate, so that a stack that is   *)
(* willing to take the configured rate has it when the join is asked for,   *)
(* whatever the attempts and the sessions before left.                      *)
THEOREM RateIsNotLostToAdr == LoraSpec => []OnlyTheStackRefusesTheRate
<1>1. LoraInv => OnlyTheStackRefusesTheRate
  BY DEF LoraInv, RadioInv, OnlyTheStackRefusesTheRate
<1>2. QED
  BY <1>1, LoraInvInit, LoraInvStep, PTL DEF LoraSpec

(* The channel mask of a join is its sub-band's eight channels and the wide *)
(* one, whichever of the eight it is.                                       *)
THEOREM JoinsStayOnTheirSubband == LoraSpec => []JoinsOnItsSubband
<1>1. LoraInv => JoinsOnItsSubband
  BY MaskEnables DEF LoraInv, LoraTypeOK, RadioInv, JoinsOnItsSubband
<1>2. QED
  BY <1>1, LoraInvInit, LoraInvStep, PTL DEF LoraSpec

(* A request that the server refuses as a replay carries a DevNonce up to    *)
(* one that a reset lost before it was saved, whenever the stack saves.     *)
THEOREM ReplaysNeedALoss == LoraSpec => []RefusedOnlyAfterLoss
<1>1. LoraInv => RefusedOnlyAfterLoss
  BY DEF LoraInv, NonceInv, RefusedOnlyAfterLoss
<1>2. QED
  BY <1>1, LoraInvInit, LoraInvStep, PTL DEF LoraSpec
=============================================================================
