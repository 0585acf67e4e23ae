------------------------------- MODULE Identity -------------------------------
(***************************************************************************)
(* Who a client is: Connect, its options and ConnectFromEnv (client.go),   *)
(* the organization gate and the headers of every request.  No state: a    *)
(* client does not change after Connect.                                   *)
(***************************************************************************)
EXTENDS Integers

CONSTANTS
  Parsed,         \* url.Parse: what each URL is made of; others do not parse
  Seconds,        \* strconv.ParseFloat: the number of each text that is one
  DefaultTimeout  \* 30 seconds

\* A string of the caller or the environment: a text with or without space
\* around it.  An unset variable is the empty string.
Unset == [text |-> "", padded |-> FALSE]
Blank == [text |-> "", padded |-> TRUE]

TrimSpace(s) == s.text

Variables ==
  {"IOMESH_URL", "IOMESH_TENANT", "IOMESH_ORG", "IOMESH_WORKSPACE", "IOMESH_DEPARTMENT",
   "IOMESH_BEARER_TOKEN", "IOMESH_TOKEN", "IOMESH_TIMEOUT", "IOMESH_REQUIRE_ORG"}

NoClient == [ok |-> FALSE]

\* An absolute http or https URL with a host and without credentials.
validateBrokerURL(url) ==
  /\ url \in DOMAIN Parsed
  /\ Parsed[url].scheme \in {"http", "https"}
  /\ Parsed[url].host # "" /\ ~Parsed[url].user

\* co: the options applied.  A timeout of 0 is the default, a negative one stays.
Connect(url, timeout, co) ==
  IF url = "" \/ ~validateBrokerURL(url) THEN NoClient
  ELSE [ok |-> TRUE, baseURL |-> url,
        timeout |-> IF timeout = 0 THEN DefaultTimeout ELSE timeout,
        tenant |-> co.tenant, org |-> co.org, workspace |-> co.workspace,
        department |-> co.department, bearerToken |-> co.bearerToken,
        requireOrg |-> co.requireOrg]

envFlag(s) == TrimSpace(s) \in {"1", "true", "yes", "on"}

\* WithWorkspace: never invented.
WorkspaceOf(env) == TrimSpace(env["IOMESH_WORKSPACE"])

ConnectFromEnv(env) ==
  LET url     == TrimSpace(env["IOMESH_URL"])
      timeout == TrimSpace(env["IOMESH_TIMEOUT"])
      token   == TrimSpace(env["IOMESH_BEARER_TOKEN"])
  IN  IF url = "" \/ (timeout # "" /\ timeout \notin DOMAIN Seconds) THEN NoClient
      ELSE Connect(url, IF timeout = "" THEN 0 ELSE Seconds[timeout],
             [tenant      |-> TrimSpace(env["IOMESH_TENANT"]),
              org         |-> TrimSpace(env["IOMESH_ORG"]),
              workspace   |-> WorkspaceOf(env),
              department  |-> TrimSpace(env["IOMESH_DEPARTMENT"]),
              bearerToken |-> IF token # "" THEN token ELSE TrimSpace(env["IOMESH_TOKEN"]),
              requireOrg  |-> envFlag(env["IOMESH_REQUIRE_ORG"])])

\* Mutation: RequireOrg is not asked.
ensureOrgNever(c) == TRUE

ensureOrgForIsolation(c) == c.requireOrg => c.org # ""

\* The identity headers of a request; a header without a value is omitted.
applyAuthHeaders(c) ==
  LET all == [tenant |-> c.tenant, org |-> c.org, workspace |-> c.workspace,
              department |-> c.department, bearer |-> c.bearerToken]
  IN  [h \in {k \in DOMAIN all : all[k] # ""} |-> all[h]]
===============================================================================
