-------------------------------- MODULE Link --------------------------------
(***************************************************************************)
(* hal::link as the rest of the firmware has it: one transport, chosen when *)
(* the firmware is built.  The other one's code is not in the build, so its *)
(* state stays as it is.                                                    *)
(***************************************************************************)
EXTENDS LoraLink, SocketLink

VARIABLE built   (* the hal/link/<transport>/ source that was compiled      *)

linkVars == <<built, loraVars, vars>>

LinkInit ==
  /\ built \in {"lora", "socket"}
  /\ LoraInit
  /\ Init

OnLora(step) == built = "lora" /\ step /\ UNCHANGED <<built, vars>>
OnSocket(step) == built = "socket" /\ step /\ UNCHANGED <<built, loraVars>>

LinkNext == OnLora(LoraNext) \/ OnSocket(Next)

LinkSpec == LinkInit /\ [][LinkNext]_linkVars

(* The threads run; a wait that nobody ends runs into its timeout, which is  *)
(* part of BringUp.  Nothing is assumed of the driver or of the network.    *)
FairLinkSpec ==
  /\ LinkSpec
  /\ WF_linkVars(OnSocket(HandleEvent)) /\ WF_linkVars(OnSocket(TellAttempt))
  /\ WF_linkVars(OnSocket(BringUp)) /\ WF_linkVars(OnSocket(Transport))

-----------------------------------------------------------------------------
(* bring_up_network() returns whatever the driver does: one that never       *)
(* reports anything does not park the caller (link_wifi.cpp:380-382).        *)
BringUpReturns == built = "socket" => <>Returned
=============================================================================
