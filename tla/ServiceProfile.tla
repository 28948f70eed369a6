---------------------------- MODULE ServiceProfile ----------------------------
(***************************************************************************)
(* The profile of listening services (sentinel-agent service_profile.rs):   *)
(* how the sockets of a scan become a profile, and which findings its       *)
(* comparison with the stored profile gives.                                *)
(*                                                                         *)
(* A scan sees a sequence of sockets [udp, addr, port, name, package, hash] *)
(* in the order of collection; addr is [ip, scope, public], with what       *)
(* bind_scope and is_public_listener_addr say of the address, and name,     *)
(* package and hash are Unknown when they could not be read.  The name      *)
(* stands for the process with its executable, unit and container.          *)
(***************************************************************************)
EXTENDS Integers, Sequences, FiniteSets, FiniteSetsExt, Functions

CONSTANTS
    Grace,             \* unknown_owner_grace_observations
    MaxPortSamples,    \* dynamic_udp_max_port_samples
    IgnoredUdpNames,   \* ignored_dynamic_udp_process_names
    SuspiciousNames    \* shells, and executables in suspicious directories

ASSUME ServiceProfileAssumption == {Grace, MaxPortSamples} \subseteq Nat

Unknown == ""

\* merge_ports and merge_bounded_sorted keep the smallest values.
Smallest(values, limit) == {v \in values : Cardinality({w \in values : w < v}) < limit}

IgnoredSocket(s) ==
    \/ s.udp /\ s.name \in IgnoredUdpNames
    \/ ~s.addr.public /\ s.addr.scope = "loopback" /\ s.name = "sshd" /\ s.port \in 6000..6099

DynamicUdpService(s, minPort) == s.addr.public /\ s.udp /\ s.port >= minPort

\* ServiceIdentity::family_key, integrity_key.
FamilyKey(s) == <<s.name, s.package>>
UnknownOwner == <<Unknown, Unknown>>
IntegrityKey(s) == [family |-> FamilyKey(s), hash |-> s.hash]

\* service_key.  A dynamic UDP service is one service on every port and on
\* every address of its scope.
AnyAddress(scope) == [ip |-> "any", scope |-> scope, public |-> TRUE]
ServiceKey(s, minPort) ==
    IF DynamicUdpService(s, minPort)
    THEN [dynamic |-> TRUE, udp |-> s.udp, addr |-> AnyAddress(s.addr.scope), port |-> 0, family |-> FamilyKey(s)]
    ELSE [dynamic |-> FALSE, udp |-> s.udp, addr |-> s.addr, port |-> s.port, family |-> UnknownOwner]

\* A record keeps the identity of its first socket; the other fields of that
\* socket may be filled in later.
ServiceRecord(socket, identity, dynamic, count, ports) ==
    [socket |-> socket, identity |-> identity, dynamic |-> dynamic, count |-> count, ports |-> ports]
KnownIdentity(r) == r.identity.family # UnknownOwner

-----------------------------------------------------------------------------
(* The profile of a scan                                                    *)

ListedAt(sockets) == {i \in DOMAIN sockets : ~IgnoredSocket(sockets[i])}
ListedKeys(sockets, minPort) == {ServiceKey(sockets[i], minPort) : i \in ListedAt(sockets)}
ListedAs(k, sockets, minPort) == {i \in ListedAt(sockets) : ServiceKey(sockets[i], minPort) = k}

\* merge_missing_fields: the first value that is known.
FirstKnown(values, at) ==
    LET known == {i \in at : values[i] # Unknown}
    IN IF known = {} THEN Unknown ELSE values[Min(known)]

\* merge_service_record, for the sockets with one key.
MergedRecord(k, sockets, at) ==
    LET first == sockets[Min(at)]
        ports == {sockets[i].port : i \in at}
        filled == [udp |-> first.udp, addr |-> first.addr, port |-> Min(ports),
                   name |-> FirstKnown([i \in at |-> sockets[i].name], at),
                   package |-> FirstKnown([i \in at |-> sockets[i].package], at),
                   hash |-> FirstKnown([i \in at |-> sockets[i].hash], at)]
    IN ServiceRecord(filled, IntegrityKey(first), k.dynamic, 1, Smallest(ports, MaxPortSamples))

\* current_profile_with_config.
CurrentProfile(sockets, minPort) ==
    [k \in ListedKeys(sockets, minPort) |-> MergedRecord(k, sockets, ListedAs(k, sockets, minPort))]

-----------------------------------------------------------------------------
(* What the stored profile says of it                                       *)

SameSocket(s, o) == <<s.udp, s.addr, s.port>> = <<o.udp, o.addr, o.port>>
SameDynamicFamily(old, r, minPort) ==
    /\ DynamicUdpService(old.socket, minPort) /\ DynamicUdpService(r.socket, minPort)
    /\ old.socket.addr.scope = r.socket.addr.scope
    /\ old.identity.family = r.identity.family /\ KnownIdentity(r)

\* legacy_dynamic_identity_seen: the executable may be another one.
LegacySeen(prev, r, minPort) ==
    r.dynamic /\ \E k \in DOMAIN prev : SameDynamicFamily(prev[k], r, minPort)

\* carry_forward_profile_state: the observations of the record this one follows.
Predecessors(k, r, prev, minPort) ==
    IF k \in DOMAIN prev THEN {k}
    ELSE LET same == {o \in DOMAIN prev : SameSocket(prev[o].socket, r.socket)}
         IN IF same # {} THEN same
            ELSE {o \in DOMAIN prev : r.dynamic /\ SameDynamicFamily(prev[o], r, minPort)}
Carried(r, old) ==
    ServiceRecord(r.socket, r.identity, r.dynamic, old.count + 1, Smallest(old.ports \cup r.ports, MaxPortSamples))
CarryForward(cur, prev, minPort) ==
    [k \in DOMAIN cur |->
        LET before == Predecessors(k, cur[k], prev, minPort)
        IN IF before = {} THEN cur[k] ELSE Carried(cur[k], prev[CHOOSE o \in before : TRUE])]

\* new_service_decision = Finding.
NewServiceReported(prev, r, minPort) ==
    /\ ~LegacySeen(prev, r, minPort)
    /\ \/ ~r.dynamic \/ r.socket.name \in SuspiciousNames
       \/ KnownIdentity(r) \/ r.count >= Grace

ConfirmationCrossed(old, r) ==
    r.dynamic /\ ~KnownIdentity(r) /\ old.count < Grace /\ r.count >= Grace

\* trusted_package_refresh; baseline_refresh_after_package_activity is on.
TrustedRefresh(old, r, packageActivity) ==
    packageActivity /\ r.socket.package # Unknown /\ FamilyKey(r.socket) = FamilyKey(old.socket)

IdentityChanged(old, r) == old.identity # r.identity

\* Mutant: only services that were not there before are looked at.
DiffProfilesNewOnly(prev, cur, packageActivity, minPort) ==
    {<<"new", k, cur[k].identity>> :
        k \in {k \in DOMAIN cur \ DOMAIN prev :
                  cur[k].socket.addr.public /\ NewServiceReported(prev, cur[k], minPort)}}

\* diff_profiles, with drift_requires_public_exposure on.
DiffProfiles(prev, cur, packageActivity, minPort) ==
    LET public == {k \in DOMAIN cur : cur[k].socket.addr.public}
        fresh == {k \in public \ DOMAIN prev : NewServiceReported(prev, cur[k], minPort)}
        known == public \cap DOMAIN prev
        crossed == {k \in known : ConfirmationCrossed(prev[k], cur[k])}
        drifted == {k \in known \ crossed : /\ IdentityChanged(prev[k], cur[k])
                                            /\ ~TrustedRefresh(prev[k], cur[k], packageActivity)}
        finding(rule, k) == <<rule, k, cur[k].identity>>
    IN {finding("new", k) : k \in fresh \cup crossed} \cup {finding("drift", k) : k \in drifted}

-----------------------------------------------------------------------------
(* evaluate_service_profile, between its load and its save: the profile to  *)
(* save, the findings, and the services it takes over without a finding.    *)

Accept(profile, keys, reason) == {<<k, profile[k].identity, reason>> : k \in keys}
Evaluation(profile, findings, accepted) ==
    [profile |-> profile, findings |-> findings, accepted |-> accepted]

FirstEvaluation(seen) == Evaluation(seen, {}, Accept(seen, DOMAIN seen, "baseline"))
NextEvaluation(prev, seen, packageActivity, minPort) ==
    LET cur == CarryForward(seen, prev, minPort)
        trusted == {k \in DOMAIN cur \cap DOMAIN prev : TrustedRefresh(prev[k], cur[k], packageActivity)}
        legacy == {k \in DOMAIN cur \ DOMAIN prev : LegacySeen(prev, cur[k], minPort)}
    IN Evaluation(cur, DiffProfiles(prev, cur, packageActivity, minPort),
                  Accept(cur, trusted, "package") \cup Accept(cur, legacy, "family"))
=============================================================================
