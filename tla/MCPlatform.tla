------------------------------ MODULE MCPlatform ------------------------------
(* Small instances of three components with their own schedule: the life of the *)
(* tenants, the feed of events to the screens and a request to the API.  No     *)
(* step of one reads the state of another: `part' says which one runs in a      *)
(* behaviour, and a run explores them side by side.                             *)
EXTENDS Tenancy, EventFeed, TenantApi, TLC

VARIABLE part

PlatformInit ==
    /\ part \in {"tenancy", "feed", "api"}
    /\ TenancyInit /\ EventFeedInit /\ ApiInit

PlatformNext ==
    \/ part = "tenancy" /\ TenancyNext /\ UNCHANGED <<part, feedVars, apiVars>>
    \/ part = "feed" /\ EventFeedNext /\ UNCHANGED <<part, tenancyVars, apiVars>>
    \/ part = "api" /\ ApiNext /\ UNCHANGED <<part, tenancyVars, feedVars>>

\* TenancyFairness, of the behaviours in which the tenants run; in the others
\* no action of the feed is enabled.
PlatformSpec ==
    /\ PlatformInit
    /\ [][PlatformNext]_<<part, tenancyVars, feedVars, apiVars>>
    /\ WF_tenancyVars(part = "tenancy" /\ Tick)
    /\ WF_tenancyVars(part = "tenancy" /\ PurgeNext)
    /\ WF_tenancyVars(part = "tenancy" /\ StartWorker)
    /\ \A d \in Deliveries : WF_tenancyVars(part = "tenancy" /\ (DeliverWrite(d) \/ DeliverAbort(d)))
    /\ EventFeedFairness

\* Types of the three components.
PlatformTypeOK == TenancyTypeOK /\ EventFeedTypeOK /\ ApiTypeOK

\* What the screens show happened, and all of it reaches them: the feed loses
\* nothing and the requests announce what they keep.
ScreensAreRight == FeedIsWhole /\ NewsIsTrue
=============================================================================
