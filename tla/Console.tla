------------------------------ MODULE Console ------------------------------
(***************************************************************************)
(* Campaigns, roles, the developer portal, passkeys, the audit log and the *)
(* rate limiter, side by side.  They share no table and no memory, so a    *)
(* step of one leaves the others as they are and what holds of one does    *)
(* not depend on the others: a behaviour here belongs to one part, chosen  *)
(* at the start, instead of to their product.                              *)
(***************************************************************************)
EXTENDS Campaigns, Rbac, DeveloperApps, Passkeys, AuditLog, RateLimiter

VARIABLE part

consoleVars == <<part, campaignVars, rbacVars, portalVars, passkeyVars, auditVars, limiterVars>>

ConsoleInit ==
  /\ part \in {"campaigns", "rbac", "portal", "passkeys", "audit", "limiter"}
  /\ CampaignInit /\ RbacInit /\ PortalInit /\ AuditInit /\ LimiterInit /\ PasskeyInit

ConsoleNext ==
  /\ \/ /\ part = "campaigns" /\ CampaignNext
        /\ UNCHANGED <<rbacVars, portalVars, passkeyVars, auditVars, limiterVars>>
     \/ /\ part = "rbac" /\ RbacNext
        /\ UNCHANGED <<campaignVars, portalVars, passkeyVars, auditVars, limiterVars>>
     \/ /\ part = "portal" /\ PortalNext
        /\ UNCHANGED <<campaignVars, rbacVars, passkeyVars, auditVars, limiterVars>>
     \/ /\ part = "passkeys" /\ PasskeyNext
        /\ UNCHANGED <<campaignVars, rbacVars, portalVars, auditVars, limiterVars>>
     \/ /\ part = "audit" /\ AuditNext
        /\ UNCHANGED <<campaignVars, rbacVars, portalVars, passkeyVars, limiterVars>>
     \/ /\ part = "limiter" /\ LimiterNext
        /\ UNCHANGED <<campaignVars, rbacVars, portalVars, passkeyVars, auditVars>>
  /\ UNCHANGED part

ConsoleSpec == ConsoleInit /\ [][ConsoleNext]_consoleVars

\* Every table, goroutine and history of the six parts keeps its shape,
\* whatever handlers and workers interleave.
ConsoleTypeOK ==
  /\ CampaignTypeOK /\ RbacTypeOK /\ PortalTypeOK /\ PasskeyTypeOK /\ AuditTypeOK /\ LimiterTypeOK
====
