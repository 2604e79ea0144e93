----------------------------- MODULE MCServices -----------------------------
(* The services that share no state with one another, each on its own      *)
(* small instance: a behaviour is one of theirs, and `part` says whose.    *)
EXTENDS BoardOrder, Feed, Vectors, Quota, Learner, McpOAuth, Cron, Updates, Attachments, Transcript,
        Consolidation

VARIABLE part

Init ==
    /\ part \in {"order", "feed", "vectors", "quota", "learner", "oauth", "cron", "updates", "attachments",
                 "transcript", "consolidation"}
    /\ OrderInit /\ FeedInit /\ VectorsInit /\ QuotaInit /\ LearnerInit
    /\ OAuthInit /\ CronInit /\ UpdatesInit /\ AttachmentsInit /\ TranscriptInit /\ ConsolidationInit

Next ==
    /\ UNCHANGED part
    /\ \/ /\ part = "order" /\ OrderNext
          /\ UNCHANGED <<feedVars, vectorVars, quotaVars, learnerVars, oauthVars, cronVars, updatesVars, attachmentVars, transcriptVars, consolidationVars>>
       \/ /\ part = "feed" /\ FeedNext
          /\ UNCHANGED <<orderVars, vectorVars, quotaVars, learnerVars, oauthVars, cronVars, updatesVars, attachmentVars, transcriptVars, consolidationVars>>
       \/ /\ part = "vectors" /\ VectorsNext
          /\ UNCHANGED <<orderVars, feedVars, quotaVars, learnerVars, oauthVars, cronVars, updatesVars, attachmentVars, transcriptVars, consolidationVars>>
       \/ /\ part = "quota" /\ QuotaNext
          /\ UNCHANGED <<orderVars, feedVars, vectorVars, learnerVars, oauthVars, cronVars, updatesVars, attachmentVars, transcriptVars, consolidationVars>>
       \/ /\ part = "learner" /\ LearnerNext
          /\ UNCHANGED <<orderVars, feedVars, vectorVars, quotaVars, oauthVars, cronVars, updatesVars, attachmentVars, transcriptVars, consolidationVars>>
       \/ /\ part = "oauth" /\ OAuthNext
          /\ UNCHANGED <<orderVars, feedVars, vectorVars, quotaVars, learnerVars, cronVars, updatesVars, attachmentVars, transcriptVars, consolidationVars>>
       \/ /\ part = "cron" /\ CronNext
          /\ UNCHANGED <<orderVars, feedVars, vectorVars, quotaVars, learnerVars, oauthVars, updatesVars, attachmentVars, transcriptVars, consolidationVars>>
       \/ /\ part = "updates" /\ UpdatesNext
          /\ UNCHANGED <<orderVars, feedVars, vectorVars, quotaVars, learnerVars, oauthVars, cronVars, attachmentVars, transcriptVars, consolidationVars>>
       \/ /\ part = "attachments" /\ AttachmentsNext
          /\ UNCHANGED <<orderVars, feedVars, vectorVars, quotaVars, learnerVars, oauthVars, cronVars, updatesVars, transcriptVars, consolidationVars>>
       \/ /\ part = "transcript" /\ TranscriptNext
          /\ UNCHANGED <<orderVars, feedVars, vectorVars, quotaVars, learnerVars, oauthVars, cronVars, updatesVars, attachmentVars, consolidationVars>>
       \/ /\ part = "consolidation" /\ ConsolidationNext
          /\ UNCHANGED <<orderVars, feedVars, vectorVars, quotaVars, learnerVars, oauthVars, cronVars, updatesVars, attachmentVars, transcriptVars>>

vars == <<part, orderVars, feedVars, vectorVars, quotaVars, learnerVars, oauthVars, cronVars, updatesVars,
          attachmentVars, transcriptVars, consolidationVars>>

Spec == Init /\ [][Next]_vars
=============================================================================
