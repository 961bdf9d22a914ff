------------------------------- MODULE Clients ------------------------------
(***************************************************************************)
(* How a hub program gets a client for a cluster: the constructors of      *)
(* pkg/rest, pkg/http and pkg/clientcmd, down to the transport cache, and  *)
(* up again through client-go's NewForConfig.                              *)
(*                                                                         *)
(* A rest.Config has a Transport field of its own, which New must find     *)
(* empty.  GetForRestConfig works on a copy of the caller's config, so     *)
(* that programs may use one config for several links; GetForKubeConfig    *)
(* and ToRESTConfig work on a config they have just read; and              *)
(* GetNoCopyConfig, which they all end in, is exported, so that programs   *)
(* may pass it a config that others use.                                   *)
(***************************************************************************)
EXTENDS TransportCache

CONSTANTS
    NoLink,       \* the empty link ID
    NoTransport,  \* a nil http.RoundTripper
    Originals,    \* rest.Configs that programs keep, and may pass again
    OptionsOf     \* what these say about TLS

ASSUME NoTransportAssumption == NoTransport \notin Transport
ASSUME OriginalsAssumption ==
    /\ Originals \cap Callers = {}
    /\ OptionsOf \in [Originals -> Configs]

VARIABLES
    transportOf,  \* per rest.Config: its Transport field
    object,       \* per caller: the rest.Config it works on
    inPlace,      \* per caller: that is one it passed to GetNoCopyConfig
    stage,        \* per caller: how far its client is
    roundTripper  \* per caller: what its client sends with

clientVars == <<transportOf, object, inPlace, stage, roundTripper>>

(* A config that was made for one caller is named by it.                   *)
Objects == Originals \cup Callers

ClientTypeOK ==
    /\ TypeOK
    /\ transportOf \in [Objects -> Transport \cup {NoTransport}]
    /\ object \in [Callers -> Objects]
    /\ inPlace \in [Callers -> BOOLEAN]
    /\ stage \in [Callers -> {"none", "configured", "made", "rejected",
                              "failed", "direct"}]
    /\ roundTripper \in [Callers -> Transport \cup {NoTransport}]

(* At first every caller has a config it has just read, or made.           *)
ClientsInit ==
    /\ Init
    /\ transportOf = [o \in Objects |-> NoTransport]
    /\ object = [t \in Callers |-> t]
    /\ inPlace = [t \in Callers |-> FALSE]
    /\ stage = [t \in Callers |-> "none"]
    /\ roundTripper = [t \in Callers |-> NoTransport]

-----------------------------------------------------------------------------
(* The config a caller works on.                                           *)

Takes(t, o) ==
    /\ stage[t] = "none"
    /\ pc[t] = "idle"
    /\ object[t] = t
    /\ conf[t] = OptionsOf[o]
    /\ UNCHANGED <<vars, stage, roundTripper>>

(* rest.CopyConfig gives the caller a config of its own.                   *)
CopyConfig_Shared(t, o) == o
CopyConfig(t, o) == t

(* The copy has the Transport field of the original.                       *)
GetForRestConfig(t) ==
    \E o \in Originals :
        LET copy == CopyConfig(t, o) IN
        /\ Takes(t, o)
        /\ object' = [object EXCEPT ![t] = copy]
        /\ transportOf' = [transportOf EXCEPT ![copy] = transportOf[o]]
        /\ UNCHANGED inPlace

(* A program calls GetNoCopyConfig with a config it keeps.                 *)
ShareConfig(t) ==
    \E o \in Originals :
        /\ Takes(t, o)
        /\ object' = [object EXCEPT ![t] = o]
        /\ inPlace' = [inPlace EXCEPT ![t] = TRUE]
        /\ UNCHANGED transportOf

-----------------------------------------------------------------------------
(* GetNoCopyConfig and New.                                                *)

SetsTransport(t, x, s) ==
    /\ transportOf' = [transportOf EXCEPT ![object[t]] = x]
    /\ stage' = [stage EXCEPT ![t] = s]
    /\ UNCHANGED <<vars, object, inPlace, roundTripper>>

Fails(t) == SetsTransport(t, NoTransport, "failed")

(* When New has returned, the Transport field is set to what it returned,  *)
(* nil with an error.  New may fail after the cache has answered: client-go*)
(* does not wrap a transport for a password and a token.                   *)
GetNoCopyConfig(t) ==
    /\ stage[t] = "none"
    /\ \/ /\ pc[t] = "done" /\ ~conf[t].twoAuths
          /\ SetsTransport(t, result[t], "configured")
       \/ /\ pc[t] = "failed" \/ (pc[t] = "done" /\ conf[t].twoAuths)
          /\ Fails(t)

(* New refuses a config that has a Transport already, or a Proxy; the field*)
(* is then nil, and the caller has an error.                               *)
Refused(t) == transportOf[object[t]] # NoTransport \/ conf[t].proxy

Refuse(t) ==
    /\ \/ stage[t] = "configured"
       \/ stage[t] = "none" /\ pc[t] = "idle"
    /\ Refused(t)
    /\ Fails(t)

(* Without a connection GetNoCopyConfig returns the config as it is; and   *)
(* where TransportConfig fails it returns the error, and leaves it alone.  *)
GetWithoutTransport(t) ==
    /\ stage[t] = "none"
    /\ pc[t] = "idle"
    /\ \E s \in {"direct", "failed"} : stage' = [stage EXCEPT ![t] = s]
    /\ UNCHANGED <<vars, transportOf, object, inPlace, roundTripper>>

(* pkg/http: the client has the transport New returned.                    *)
NewClient(t) ==
    /\ pc[t] = "done" /\ ~conf[t].twoAuths
    /\ stage[t] = "none"
    /\ object[t] = t
    /\ stage' = [stage EXCEPT ![t] = "made"]
    /\ roundTripper' = [roundTripper EXCEPT ![t] = result[t]]
    /\ UNCHANGED <<vars, transportOf, object, inPlace>>

(* NewForConfig, ToDiscoveryClient, ToRESTMapper: client-go refuses a      *)
(* Transport together with TLS options.                                    *)
NewForConfig(t) ==
    /\ stage[t] = "configured"
    /\ LET rt  == transportOf[object[t]]
           tls == \/ HasCA(conf[t]) \/ HasCertAuth(conf[t])
                  \/ conf[t].callback \/ conf[t].insecure
       IN  IF rt # NoTransport /\ tls
           THEN /\ stage' = [stage EXCEPT ![t] = "rejected"]
                /\ UNCHANGED roundTripper
           ELSE /\ stage' = [stage EXCEPT ![t] = "made"]
                /\ roundTripper' = [roundTripper EXCEPT ![t] = rt]
    /\ UNCHANGED <<vars, transportOf, object, inPlace>>

(* The proxy server looks up a URL parameter its route does not have, and  *)
(* asks for a client without TLS options for the empty link.               *)
handle(t) ==
    /\ object[t] = t
    /\ ~RequestsTLS(conf[t])
    /\ link[t] = NoLink
    /\ ComputeKey(t)

(* New, for a config it does not refuse.                                   *)
New(t) ==
    /\ stage[t] = "none"
    /\ \/ ~Refused(t) /\ link[t] # NoLink /\ ComputeKey(t)
       \/ ~Refused(t) /\ handle(t)
       \/ Lock(t) \/ Hit(t) \/ Miss(t) \/ Store(t)
    /\ UNCHANGED clientVars

ClientsNext ==
    \/ \E t \in Callers :
         \/ GetForRestConfig(t) \/ ShareConfig(t)
         \/ New(t) \/ GetNoCopyConfig(t) \/ Refuse(t)
         \/ GetWithoutTransport(t) \/ NewClient(t) \/ NewForConfig(t)
    \/ \E p \in Paths : Rewrite(p) /\ UNCHANGED clientVars

ClientsSpec == ClientsInit /\ [][ClientsNext]_<<vars, clientVars>>

-----------------------------------------------------------------------------
(* The config of t is in use by somebody else who called GetNoCopyConfig   *)
(* on it, as t did.                                                        *)
SharedInPlace(t) ==
    inPlace[t] /\ \E u \in Callers \ {t} : object[u] = object[t]

(* A client that was made with a connection sends over NATS, through the   *)
(* link its caller asked for: not straight to the API server, and not to   *)
(* the cluster of another caller that passed the same rest.Config,         *)
(* whichever constructor that one used (pkg/rest, GetForRestConfig).  Only *)
(* who lets GetNoCopyConfig work on a config in use has no such promise.   *)
ThroughOwnLink ==
    \A t \in Callers : stage[t] = "made" /\ ~SharedInPlace(t) =>
        roundTripper[t] # NoTransport /\ roundTripper[t].link = link[t]
=============================================================================
