----------------------------- MODULE MCCampaign -----------------------------
(* Instances of CampaignRecovery and EvalRun for TLC: campaign runs of one to three
   slots, of which the larger ones may be too dear to recover, and a run of two slots
   with a retry. *)
EXTENDS CampaignRecovery

SmallPlans == [slots: 1..3, retries: {0}, guarded: {TRUE}] \cup
              {[slots |-> 2, retries |-> 1, guarded |-> FALSE]}
=============================================================================
