---------------------------- MODULE MCIntakeStore ----------------------------
(***************************************************************************)
(* The two ends of the pipeline: what a webhook delivers and what an        *)
(* extraction stores.  They meet only through the worker and share no       *)
(* state here, so a behaviour of this instance is one of one of them.       *)
(***************************************************************************)
EXTENDS TypedStore, WebhookIntake, TLC

VARIABLE end

endVars == <<end, intakeVars, storeVars>>

EndsInit == end \in {"intake", "store"} /\ IntakeInit /\ StoreInit

EndsNext ==
  \/ end = "intake" /\ IntakeNext /\ UNCHANGED <<end, storeVars>>
  \/ end = "store" /\ StoreNext /\ UNCHANGED <<end, intakeVars>>

EndsSpec == EndsInit /\ [][EndsNext]_endVars

(* Message 3 is a mail, the others are WhatsApp messages in order of time. *)
MCMail == Message \cap {3}
MCChatOf == [m \in Message \ MCMail |-> "c"]
MCTimeOf == [m \in Message \ MCMail |-> m]

(* Flats, threads and requests: which is which does not matter.            *)
Alike == Permutations(Unit) \cup Permutations(Extractor) \cup Permutations(Handler)
=============================================================================
