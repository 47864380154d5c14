----------------------------- MODULE Endpoints -----------------------------
(***************************************************************************)
(* The operations of the client that are one request each: how each is     *)
(* sent, what becomes of its answer, and what it does at the service.  One *)
(* definition stands for one section of a file; an operation that is sent  *)
(* as a caller other than the client gets that caller's token, which makes *)
(* no difference here.                                                     *)
(***************************************************************************)

\* Effects: an operation reads; makes something happen anew each time it is
\* applied; begins a flow, whose beginnings without an end are harmless; sets
\* something to what it says; removes something; spends something that works
\* once; or asks for a decision.
Effects == {"read", "make", "begin", "set", "remove", "spend", "decide"}

By(verb, effect, names) ==
    {[name |-> n, verb |-> verb, answer |-> "decode", effect |-> effect] : n \in names}

Get(names)    == By("GET", "read", names)
Start(names)  == By("GET", "begin", names)
Ask(names)    == By("POST", "read", names)
Patch(names)  == By("PATCH", "make", names)
Put(names)    == By("PUT", "set", names)
Delete(names) == By("DELETE", "remove", names)

\* Mutants: what makes something, or spends it, is sent by PUT.
PutPost(names)  == By("PUT", "make", names)
PutSpend(names) == By("PUT", "spend", names)

Post(names)  == By("POST", "make", names)
Spend(names) == By("POST", "spend", names)

\* Without an answer to decode, and with one that is returned as it is.
Answered(answer, calls) ==
    {[name |-> c.name, verb |-> c.verb, answer |-> answer, effect |-> c.effect] : c \in calls}

Bare(calls) == Answered("fire", calls)
Raw(calls)  == Answered("raw", calls)

-----------------------------------------------------------------------------
PasswordPolicy ==
    Get({"GetPasswordPolicy", "PasswordComplianceReport", "PasswordAuditEvents"})
      \cup Post({"SetPasswordPolicy", "ForcePasswordReset", "UpdatePasswordAge"})

SigningKeys ==
    Get({"ListRevokedKeys", "JWKSRotationStatus", "JWKSNextRotation"})
      \cup Post({"RevokeSigningKey", "RotateSigningKeys", "GenerateSigningKey", "ActivateSigningKey",
            "CleanupSigningKeys"})

Administration ==
    Get({"CircuitBreakerStatus", "RevocationAuditLog"})
      \cup Post({"CreateServiceAccount", "ElevatePrivileges", "ResetCircuitBreaker",
            "ResetAllCircuitBreakers", "EmergencyRevokeAPIKeys", "UpdateProviderStatus"})

SuperAdmin ==
    Get({"SuperAdminActiveGrants", "SuperAdminAuditLog"})
      \cup Post({"SuperAdminGrant", "SuperAdminRevoke", "SuperAdminExtend", "SuperAdminApprove",
            "SuperAdminCleanupExpired"})

APIKeys ==
    Get({"ListAPIKeys", "GetAPIKey", "CheckDelegation", "ListDelegations"})
      \cup Post({"CreateAPIKey", "GrantDelegation", "Delegate"}) \cup Put({"UpdateAPIKey"})
      \cup Delete({"DeleteAPIKey", "RevokeDelegation"})

Emails ==
    Get({"EmailHistory", "EmailStats", "GlobalEmailConfig", "EmailTemplateTypes", "OrgEmailHistory",
            "GetOrgEmailConfig", "ListOrgEmailTemplates", "GetOrgEmailTemplate"})
      \cup Ask({"PreviewOrgEmailTemplate"}) \cup Post({"SendTestEmail"})
      \cup Put({"UpdateOrgEmailConfig", "UpdateOrgEmailTemplate"})
      \cup Delete({"DeleteOrgEmailConfig", "DeleteOrgEmailTemplate"})

Events ==
    Get({"EventTypes", "ListEventSubscriptions", "GetEventSubscription", "EventSubscriptionStats"})
      \cup Post({"CreateEventSubscription", "TestEventSubscription", "ToggleEventSubscription"})
      \cup Patch({"UpdateEventSubscription"}) \cup Bare(Delete({"DeleteEventSubscription"}))

HostedLogin ==
    Get({"OrgAuthProviders"}) \cup Start({"OrgSSOInitiate"})
      \cup Post({"OrgLogin", "OrgRegister", "OrgLogout", "OrgResetPassword"})
      \cup Spend({"OrgToken", "OrgRefresh", "OrgSSOCallback"})

LoginConfig ==
    Get({"GetLoginConfig", "GetPublicLoginConfig", "ListOrgClients", "GetHostedLoginPage",
            "AcceptInvitePage"})
      \cup Put({"UpdateLoginConfig"})

Directories ==
    Get({"GetHRISConnection", "GetSCIMConnection"})
      \cup Post({"ConfigureHRISConnection", "SyncHRIS", "EnableSCIMConnection"})
      \cup Delete({"DeleteHRISConnection"}) \cup Bare(Delete({"DeleteSCIMConnection"}))

Mesh ==
    Get({"ListMeshProviders", "GetMeshProvider"}) \cup Post({"PublishMeshProvider"})

NetworkPolicy ==
    Get({"ListNetworkPolicies", "GetNetworkPolicy", "EvaluateNetworkPolicy", "ListNetworkOverrides",
            "ListTempAllowlist", "ListNetworkViolations"})
      \cup Post({"CreateNetworkPolicy", "CreateEmergencyOverride", "CreateTempAllowlist"})
      \cup Put({"UpdateNetworkPolicy"})
      \cup Delete({"DeleteNetworkPolicy", "DeleteNetworkOverride", "DeleteTempAllowlist"})

AccessChecks ==
    Get({"NetworkAccessCheck"}) \cup Ask({"EvaluateNetworkAccess"})

Authorization ==
    Start({"OAuthAuthorize", "ProviderAuthorizeInfo"}) \cup Post({"PushedAuthorizationRequest"})
      \cup Spend({"OAuthToken", "RefreshTokenForm"})

Registration ==
    Get({"GetClientRegistration", "ValidatePasswordResetToken"})
      \cup Post({"ExchangeToken", "RegisterClient", "RequestPasswordResetAuth"})
      \cup Bare(Post({"SendVerificationEmail"})) \cup Spend({"ConfirmPasswordResetAuth"})
      \cup Bare(Spend({"ConfirmVerificationEmail"})) \cup Put({"UpdateClientRegistration"})
      \cup Bare(Delete({"DeleteClientRegistration"}))

Discovery ==
    Get({"OpenIDConfiguration", "AuthorizationServerMetadata", "JWKSHealth"})

Sessions ==
    Get({"Me"}) \cup Start({"OAuthAuthorizeURL"})
      \cup Post({"Login", "Register", "Logout", "RevokeToken", "SwitchOrganization"})
      \cup Bare(Post({"RevokeTokenPublic"})) \cup Spend({"Refresh", "OAuthCallback"})

Permissions ==
    Get({"GetUserPermissions", "GetRoles"}) \cup Ask({"Introspect", "CheckPermission"})

Directory ==
    Get({"GetUser", "GetMyOrganizations", "GetOrganization"})

Organizations ==
    Get({"GetOrgHierarchy", "ListOrgUsers", "ListInvitations", "ListOrgSessions"})
      \cup Post({"CreateOrganization", "InviteToOrganization"})
      \cup Put({"UpdateOrganization", "UpdateOrgUserRole"})
      \cup Delete({"DeleteOrganization", "RemoveOrgUser", "RevokeInvitation", "RevokeOrgSessions",
            "RevokeUserSessions"})

Teams ==
    Get({"ListTeams", "GetTeam", "ListTeamMembers", "GetTeamPermissions", "GetInvitation"})
      \cup Post({"CreateTeam", "AddTeamMember"}) \cup Put({"UpdateTeam", "UpdateTeamMemberRole"})
      \cup Delete({"DeleteTeam", "RemoveTeamMember"})

WebAuthn ==
    Get({"WebAuthnConfig", "ListWebAuthnCredentials"})
      \cup Post({"WebAuthnRegisterStart", "WebAuthnAuthenticateStart"})
      \cup Spend({"WebAuthnRegisterFinish", "WebAuthnAuthenticateFinish"})
      \cup Put({"UpdateWebAuthnCredential"}) \cup Delete({"DeleteWebAuthnCredential"})

MagicLinks ==
    Get({"ListActiveMagicLinks", "MagicLinkConfig", "MagicLinkAnalytics", "ListDevices"})
      \cup Post({"SendMagicLink", "GenerateRecoveryCodes"})
      \cup Spend({"VerifyMagicLink", "VerifyRecoveryCode"}) \cup Delete({"RevokeMagicLink"})

Checks ==
    Get({"ZanzibarCheckWildcard"})
      \cup Ask({"CheckPermissionPublic", "ZanzibarCheck", "ZanzibarCheckBulk", "ZanzibarExpand",
            "ZanzibarListObjects", "ZanzibarListUsers"})

Tuples ==
    Get({"ListRelationships", "ListNamespaces", "GetNamespace"})
      \cup Post({"WriteRelationships", "CreateNamespace", "ZanzibarGrant"})
      \cup Delete({"DeleteRelationships", "ZanzibarRevoke", "DeleteRelationshipByObject"})

Hierarchies ==
    Get({"WatchStatus"}) \cup Ask({"VisualizeHierarchy", "VisualizePermissions"})
      \cup Post({"SetupOrgHierarchy", "SetupTeamMembership", "MigrateSetupDefaults",
            "MigratePermissions"})

Providers ==
    Get({"ListProviders", "GetProvider", "SupportedProviderTypes", "ListSSOSessions",
            "GetSSOSession"})
      \cup Ask({"TestProvider"})
      \cup Post({"CreateProvider", "CreateSSOSession", "CreateDomainToken", "PropagateSSO",
            "PropagateLogout"})
      \cup Put({"UpdateProvider"}) \cup Delete({"DeleteProvider", "DeleteSSOSession"})

Federation ==
    Get({"GetSSOConfig", "ListSSODomains", "GetSSODomain", "ListAttributeMappings", "GetJITConfig",
            "FederationStats"})
      \cup Post({"CreateSSODomain", "CreateAttributeMapping"})
      \cup Put({"UpdateSSOConfig", "UpdateSSODomain", "UpdateJITConfig"})
      \cup Delete({"DeleteSSODomain"})

Quotas ==
    Get({"MyQuotaUsage", "CheckQuota", "QuotaTiers"})

Reports ==
    Get({"ListReports"}) \cup Post({"SubmitReport", "DismissReport", "ResolveReport"})

Roles ==
    Get({"ListRegisteredServices", "ListValidPermissions", "RegistryStats"})
      \cup Ask({"ValidatePermissions"})
      \cup Post({"GrantPermission", "RevokePermission", "RegisterServicePermissions"})

SAMLFlows ==
    Raw(Get({"SAMLMetadata", "SAMLSPMetadata"})) \cup Raw(Start({"SAMLSSORedirect"}))
      \cup Post({"SAMLSingleLogout"}) \cup Raw(Post({"SAMLSSOPost"}))
      \cup Spend({"SAMLAssertionConsumer"})

SAMLServices ==
    Get({"ListSAMLSessions", "ListSAMLSPs", "GetSAMLSP", "GetSAMLAttributeMappings",
            "GetSAMLCertificates", "SAMLAnalytics"})
      \cup Raw(Get({"SAMLServiceProviderMetadata"}))
      \cup Post({"RegisterSAMLSP", "GenerateSAMLCertificate"}) \cup Raw(Post({"SAMLInitiateSLO"}))
      \cup Put({"UpdateSAMLSP", "UpdateSAMLAttributeMappings"}) \cup Delete({"DeleteSAMLSP"})

SCIM ==
    Get({"ListScimUsers", "GetScimUser", "ListScimGroups", "GetScimGroup", "ScimSchemas",
            "ScimResourceTypes", "ScimServiceProviderConfig"})
      \cup Post({"CreateScimUser", "CreateScimGroup"})
      \cup Put({"ReplaceScimUser", "ReplaceScimGroup"})
      \cup Patch({"PatchScimUser", "PatchScimGroup"})
      \cup Bare(Delete({"DeleteScimUser", "DeleteScimGroup"}))

System ==
    Get({"JWKSMetrics", "RecentAlerts", "Health", "Status", "JWKSHealthDetail", "EnterpriseLicense",
            "Help", "EnterpriseHelp", "Metrics", "Discover"})
      \cup Post({"RecoverJWKS"})

Users ==
    Get({"GetMyProfile"})
      \cup Post({"ChangeMyPassword", "VerifyUserEmail", "DeactivateUser", "ActivateUser",
            "RequestPasswordReset"})
      \cup Spend({"ResetPassword"}) \cup Put({"UpdateMyProfile", "UpdateUser"})

Erasure ==
    Delete({"DeleteCurrentUser"})

Models ==
    Get({"ReadAuthorizationModel", "ListAuthorizationModels"})
      \cup Post({"WriteAuthorizationModel"})

Assertions ==
    Get({"GetModelAssertions"}) \cup Ask({"RunModelAssertions"}) \cup Put({"PutModelAssertions"})

\* The decision endpoints for proxies, which are asked by the method the proxy
\* was: what is not said is GET.
normalizeFAMethod == {"GET", "POST", "HEAD"}
ForwardAuth ==
    {[name |-> n, verb |-> m, answer |-> "raw", effect |-> "decide"] :
        n \in {"ForwardAuth", "ForwardAuthLive", "ForwardAuthPass", "ForwardAuthFail"},
        m \in normalizeFAMethod}

Table ==
    PasswordPolicy \cup SigningKeys \cup Administration \cup SuperAdmin \cup APIKeys \cup
    Emails \cup Events \cup HostedLogin \cup LoginConfig \cup Directories \cup Mesh \cup
    NetworkPolicy \cup AccessChecks \cup Authorization \cup Registration \cup Discovery \cup
    Sessions \cup Permissions \cup Directory \cup Organizations \cup Teams \cup WebAuthn
    \cup MagicLinks \cup Checks \cup Tuples \cup Hierarchies \cup Providers \cup Federation
    \cup Quotas \cup Reports \cup Roles \cup SAMLFlows \cup SAMLServices \cup SCIM \cup
    System \cup Users \cup Erasure \cup Models \cup Assertions \cup ForwardAuth

\* How an operation can be sent: those that are sent alike behave alike.
Calls == {[verb |-> o.verb, answer |-> o.answer, effect |-> o.effect] : o \in Table}
=============================================================================
