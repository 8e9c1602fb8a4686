------------------------------ MODULE LoraLink ------------------------------
(***************************************************************************)
(* hal::link on LoRaWAN: initialize(), connect() and what survives a        *)
(* failed attempt, a restart and a lost answer.  connect() is called by the *)
(* comms thread alone; what may come between its steps is the network, that *)
(* moves the data rate, and a reset, that forgets everything but the        *)
(* DevNonce the stack has saved by then.                                   *)
(*                                                                         *)
(* The LoRaWAN stack and the join server are not in src/; they are here as  *)
(* far as the comments of link_lora.cpp rely on them.                      *)
(***************************************************************************)
EXTENDS Integers, FiniteSets

CONSTANTS
  Rate,          (* US915 data rates an uplink may use                      *)
  RegionDefault, (* the rate the stack starts at                            *)
  InitialRate,   (* CONFIG_APP_LINK_LORA_INITIAL_DATARATE                   *)
  MaxNonce       (* bound: join requests in the device's life               *)

ASSUME LoraConstants ==
  /\ Rate \subseteq Nat
  /\ RegionDefault \in Rate
  /\ InitialRate \in Rate
  /\ MaxNonce \in Nat

VARIABLES
  subband,      (* CONFIG_APP_LINK_LORA_SUBBAND                             *)
  keys,         (* JoinEUI and AppKey are hex strings of the right length   *)
  dev_eui,      (* the DevEUI is, or hwinfo returns all of its bytes        *)
  calling,      (* what the comms thread is inside                          *)
  is_joined,    (* m_is_joined                                              *)
  adr,          (* the stack: adaptive data rate is on                      *)
  rate,         (* the stack: the rate of the next uplink                   *)
  mask,         (* the stack: six 16-bit words, as sets of bits             *)
  willing,      (* the stack: with ADR off it takes the configured rate     *)
  session,      (* the stack holds session keys                             *)
  nonce,        (* the stack: DevNonce of the last join request             *)
  stored_nonce, (* the DevNonce in flash                                    *)
  last_nonce,   (* the join server: highest DevNonce it saw                 *)
  lost_nonce    (* history: highest DevNonce that the server had seen when a *)
                (* reset took it from memory before it was in flash         *)

config == <<subband, keys, dev_eui>>
air == <<adr, rate, mask, willing>>
nonces == <<nonce, stored_nonce, last_nonce, lost_nonce>>
loraVars == <<subband, keys, dev_eui, calling, is_joined, adr, rate, mask,
              willing, session, nonce, stored_nonce, last_nonce, lost_nonce>>

(* A join request is out, whatever has become of it. *)
Joining == calling \in {"joining", "accepted", "unanswered", "rejected"}

Word == 0..5
Bit == 0..15
Channel == 0..71
AllWords == [w \in Word |-> IF w < 4 THEN Bit ELSE IF w = 4 THEN 0..7 ELSE {}]

(* Channel c is bit c % 16 of word c / 16. *)
Enabled(m) == {c \in Channel : c % 16 \in m[c \div 16]}

(* build_us915_channel_mask(): eight channels that share a word, and the    *)
(* 500 kHz channel in word 4.                                              *)
CountedFromOne(n) == n
Index(n) == n - 1
MaskFor(n) ==
  [w \in Word |->
     IF w = Index(n) \div 2 THEN {8 * (Index(n) % 2) + k : k \in 0..7}
     ELSE IF w = 4 THEN {Index(n)} ELSE {}]

(* parse_hex() and resolve_dev_eui(), as far as connect() looks at them. *)
KeysParsed == keys
DevEuiResolved == dev_eui

(* What the stack is asked about its rate and its ADR, as one value.  The   *)
(* stack refuses a rate while ADR is on, and may refuse it without.        *)
EnableAdr(s, on) == [s EXCEPT !.adr = on]
LeaveAdr(s) == s
DisableAdr(s) == EnableAdr(s, FALSE)
SetDatarate(s, r) == IF s.adr \/ ~s.willing THEN s ELSE [s EXCEPT !.rate = r]

-----------------------------------------------------------------------------
RestoredAtZero == 0
Restored == stored_nonce

LoraInit ==
  /\ subband \in 1..8
  /\ keys \in BOOLEAN /\ dev_eui \in BOOLEAN
  /\ calling = "initialize"
  /\ is_joined = FALSE
  /\ adr = FALSE /\ rate = RegionDefault /\ mask = AllWords
  /\ willing \in BOOLEAN
  /\ session = FALSE
  /\ nonce = 0 /\ stored_nonce = 0 /\ last_nonce = 0 /\ lost_nonce = 0

(* initialize(): without a radio or without the stack bring-up has failed   *)
(* and connect() fails in the stack for good; only success goes on.        *)
Initialize ==
  /\ calling = "initialize"
  /\ calling' \in {"nothing", "initialize"}
  /\ UNCHANGED <<config, is_joined, air, session, nonces>>

(* connect() that returns CONFIG_ERROR: a key or a DevEUI that is malformed, *)
(* or else a mask that the stack refuses.                                   *)
ConnectRefused ==
  /\ calling = "nothing"
  /\ is_joined' = FALSE
  /\ UNCHANGED <<config, calling, air, session, nonces>>

(* connect() up to lorawan_join(): the mask, then the rate with ADR off,    *)
(* then ADR.  A rate that is refused is logged and no more: connect() goes  *)
(* on at the rate the stack has.  The request takes the next DevNonce.     *)
Prepared(accepts) ==
  LET stack == [adr |-> adr, rate |-> rate, willing |-> accepts]
  IN EnableAdr(SetDatarate(DisableAdr(stack), InitialRate), TRUE)

BeginJoin ==
  /\ calling = "nothing"
  /\ KeysParsed /\ DevEuiResolved
  /\ nonce < MaxNonce
  /\ calling' = "joining"
  /\ is_joined' = FALSE
  /\ mask' = MaskFor(subband)
  /\ willing' \in BOOLEAN
  /\ adr' = Prepared(willing').adr /\ rate' = Prepared(willing').rate
  /\ nonce' = nonce + 1
  /\ UNCHANGED <<config, session, stored_nonce, last_nonce, lost_nonce>>

(* The join server takes a request whose DevNonce is new to it, and has seen *)
(* that DevNonce whether or not its answer arrives.                         *)
ServerHears ==
  /\ calling = "joining"
  /\ nonce > last_nonce
  /\ last_nonce' = nonce
  /\ calling' \in {"accepted", "unanswered"}
  /\ UNCHANGED <<config, is_joined, air, session, nonce, stored_nonce, lost_nonce>>

(* It refuses any other as a replay. *)
ServerRejects ==
  /\ calling = "joining"
  /\ nonce <= last_nonce
  /\ calling' = "rejected"
  /\ UNCHANGED <<config, is_joined, air, session, nonces>>

(* The stack writes its DevNonce to flash at a moment of its own choice. *)
SaveNonce ==
  /\ stored_nonce' = nonce
  /\ UNCHANGED <<config, calling, is_joined, air, session, nonce, last_nonce,
                 lost_nonce>>

(* lorawan_join() returns, with an error unless the answer was a yes. *)
EndJoin ==
  /\ Joining
  /\ calling' = "nothing"
  /\ is_joined' = (calling = "accepted")
  /\ session' = (session \/ calling = "accepted")
  /\ UNCHANGED <<config, air, nonces>>

(* LinkADRReq: the network of a running session chooses the rate. *)
NetworkMovesRate ==
  /\ session /\ adr
  /\ calling = "nothing"
  /\ rate' \in Rate
  /\ UNCHANGED <<config, calling, is_joined, adr, mask, willing, session, nonces>>

(* A reset at any time, in the middle of a join too. *)
Reset ==
  /\ calling' = "initialize"
  /\ is_joined' = FALSE
  /\ adr' = FALSE /\ rate' = RegionDefault /\ mask' = AllWords
  /\ session' = FALSE
  /\ nonce' = Restored
  /\ lost_nonce' = IF last_nonce > stored_nonce THEN last_nonce ELSE lost_nonce
  /\ UNCHANGED <<config, willing, stored_nonce, last_nonce>>

Connect == ConnectRefused \/ BeginJoin \/ EndJoin
Server == ServerHears \/ ServerRejects
LoraNext ==
  Initialize \/ Connect \/ Server \/ SaveNonce \/ NetworkMovesRate \/ Reset
LoraSpec == LoraInit /\ [][LoraNext]_loraVars

-----------------------------------------------------------------------------
(* Every variable holds a value of its type. *)
LoraTypeOK ==
  /\ subband \in 1..8 /\ keys \in BOOLEAN /\ dev_eui \in BOOLEAN
  /\ Joining \/ calling \in {"initialize", "nothing"}
  /\ is_joined \in BOOLEAN /\ session \in BOOLEAN
  /\ adr \in BOOLEAN /\ rate \in Rate /\ willing \in BOOLEAN
  /\ mask \in [Word -> SUBSET Bit]
  /\ nonce \in 0..MaxNonce
  /\ stored_nonce \in 0..MaxNonce
  /\ last_nonce \in 0..MaxNonce
  /\ lost_nonce \in 0..MaxNonce

(* A join is asked for with ADR on, and at the configured rate unless the    *)
(* stack would refuse that rate with ADR off too: no attempt keeps another   *)
(* rate because ADR outlived a failed one or a session that the network had *)
(* moved (link_lora.cpp:269-285).                                           *)
OnlyTheStackRefusesTheRate ==
  Joining => adr /\ (willing => rate = InitialRate)

(* A join uses the channels its gateway listens on and no others: 8(n-1) to  *)
(* 8n-1 and 63+n for sub-band n (link_lora.cpp:112-118).                    *)
JoinsOnItsSubband ==
  Joining =>
    Enabled(mask) = 8 * (subband - 1) .. 8 * subband - 1 \cup {63 + subband}

(* A request is refused as a replay only for a DevNonce up to one that a     *)
(* reset took from memory before the stack had saved it: a device whose      *)
(* stack saves before every reset is never refused, neither after a reboot   *)
(* nor after an answer that was lost (link_lora.cpp:20-28, 299-303).        *)
RefusedOnlyAfterLoss == calling = "rejected" => nonce <= lost_nonce
=============================================================================
