------------------------------- MODULE Site -------------------------------
(***************************************************************************)
(* The plant as the program describes it: BMS devices, PCS devices and the *)
(* clusters that bind them, in memory (session) and in the files of the    *)
(* profiles (disk).  Every handler changes the session and then saves some *)
(* of the files, one after the other and not atomically, so a crash may    *)
(* leave the later ones old and one of them unreadable (Broken).           *)
(*                                                                         *)
(* A missing file is a file with the default content: ensure_profile       *)
(* creates it before anything reads it.                                    *)
(***************************************************************************)
EXTENDS Naturals, FiniteSets, Sequences, SequencesExt

CONSTANTS
    Bms, Pcs, ClusterNames, Profiles,   \* the names the operator uses
    PCS1,           \* "PCS-1", the PCS that ensure_profile puts into every profile
    Cluster1,       \* "Cluster-1"
    DefaultProfile, \* the profile of every start
    Templates,      \* the lists of PCSs that template packages bring
    Broken,         \* the content of a file whose writing was cut off
    MaxClusters,    \* bound on the clusters of the site
    MaxEdits        \* bound on the handlers that are run

ASSUME NamesAssumption == /\ PCS1 \in Pcs /\ Cluster1 \in ClusterNames
                          /\ DefaultProfile \in Profiles
                          /\ Templates \subseteq Seq(Pcs) \ {<<>>}
ASSUME SiteBoundsAssumption == MaxClusters \in Nat /\ MaxEdits \in Nat

VARIABLES session, disk, up, edits
vars == <<session, disk, up, edits>>

Clusters == [name : ClusterNames, bms : SUBSET Bms, pcs : SUBSET Pcs]
Sessions == [profile : Profiles, devices : Seq(Bms), clusters : Seq(Clusters), active : Nat,
             pcs : Seq(Pcs), current : Pcs]
Files == [devices : Seq(Bms) \cup {Broken}, site : Seq(Clusters) \cup {Broken},
          pcs : Seq(Pcs) \cup {Broken}]
ASSUME BrokenAssumption == Broken \notin Seq(Bms) \cup Seq(Clusters) \cup Seq(Pcs)

(* save_devices_to_default, save_site_config and save_pcs_config.          *)
Content(s) == [devices |-> s.devices, site |-> s.clusters, pcs |-> s.pcs]
Saved(f, s, kinds) == [x \in DOMAIN f |-> IF x \in kinds THEN Content(s)[x] ELSE f[x]]

DefaultSite == <<[name |-> Cluster1, bms |-> {}, pcs |-> {PCS1}]>>
DefaultFiles == [devices |-> <<>>, site |-> DefaultSite, pcs |-> <<PCS1>>]

(* ensure_profile: a dictionary it cannot read becomes the default, and    *)
(* PCS-1 is put back; the list of the devices is left as it is.            *)
Ensured(f) ==
    [f EXCEPT !.site = IF @ = Broken THEN DefaultSite ELSE @,
              !.pcs = IF @ = Broken THEN <<PCS1>> ELSE IF PCS1 \in Range(@) THEN @ ELSE Append(@, PCS1)]

(* MainWindow.__init__ over the files of the default profile.              *)
Fresh(f) == [profile |-> DefaultProfile, devices |-> <<>>,
             clusters |-> <<[name |-> Cluster1, bms |-> {}, pcs |-> {f.pcs[1]}]>>, active |-> 1,
             pcs |-> f.pcs, current |-> f.pcs[1]]
Down == Fresh(DefaultFiles)

Init == /\ disk = [q \in Profiles |-> DefaultFiles]
        /\ session = Down /\ up = FALSE /\ edits = 0

(***************************************************************************)
(* The process may die in any of the writes: those before it are on the    *)
(* disk, it is there whole or in part, those after it are not.             *)
(***************************************************************************)
Die == up' = FALSE /\ session' = Down
DieSaving(q, f, s, kinds) == \E k \in 1..Len(kinds) : \E written \in {Broken, Content(s)[kinds[k]]} :
    /\ disk' = [disk EXCEPT ![q] = [Saved(f, s, Range(SubSeq(kinds, 1, k - 1)))
                                        EXCEPT ![kinds[k]] = written]]
    /\ Die

Commit(s, kinds) ==
    /\ up /\ edits < MaxEdits /\ edits' = edits + 1
    /\ \/ /\ disk' = [disk EXCEPT ![s.profile] = Saved(@, s, Range(kinds))]
          /\ session' = s /\ up' = TRUE
       \/ DieSaving(s.profile, disk[s.profile], s, kinds)

Devices == Range(session.devices)
Names == {session.clusters[i].name : i \in DOMAIN session.clusters}
Named(c) == {i \in DOMAIN session.clusters : session.clusters[i].name = c}
FirstNamed(c) == CHOOSE i \in Named(c) : \A j \in Named(c) : i <= j
LastNamed(c) == CHOOSE i \in Named(c) : \A j \in Named(c) : j <= i

Without(clusters, bms, pcs) ==
    [i \in DOMAIN clusters |-> [clusters[i] EXCEPT !.bms = @ \ bms, !.pcs = @ \ pcs]]

(***************************************************************************)
(* The devices page.                                                       *)
(***************************************************************************)
Added(s, b) == [s EXCEPT !.devices = Append(@, b), !.clusters[s.active].bms = @ \cup {b}]

AddDevice(b) == b \notin Devices /\ Commit(Added(session, b), <<"devices", "site">>)

MutRemoveDevice(b) ==
    /\ b \in Devices
    /\ Commit([session EXCEPT !.devices = RemoveFirst(@, b)], <<"devices", "site">>)

RemoveDevice(b) ==
    /\ b \in Devices
    /\ Commit([session EXCEPT !.devices = RemoveFirst(@, b),
                              !.clusters = Without(@, {b}, {})], <<"devices", "site">>)

(* Save devices, into the file of any profile and then of this one.        *)
SaveDevices(q) ==
    /\ up /\ edits < MaxEdits /\ edits' = edits + 1
    /\ \/ /\ disk' = [disk EXCEPT ![q].devices = session.devices,
                                  ![session.profile].devices = session.devices]
          /\ UNCHANGED <<session, up>>
       \/ DieSaving(q, disk[q], session, <<"devices">>)
       \/ /\ disk' = [disk EXCEPT ![q].devices = session.devices, ![session.profile].devices = Broken]
          /\ Die

(***************************************************************************)
(* _load_devices_from_path: the list and the active cluster are emptied,   *)
(* then add_device is called, and saves, for one entry after the other.    *)
(***************************************************************************)
Loading(s, devices, n) ==
    [s EXCEPT !.devices = SubSeq(devices, 1, n),
              !.clusters[s.active].bms = Range(SubSeq(devices, 1, n))]
Both == {"devices", "site"}
MutRewritten(f, s, devices, n) ==
    IF n = 0 THEN f ELSE [Saved(f, Loading(s, devices, n), Both) EXCEPT !.devices = SubSeq(devices, 1, n - 1)]
Rewritten(f, s, devices, n) == IF n = 0 THEN f ELSE Saved(f, Loading(s, devices, n), Both)

DieLoading(s, f, devices) == \E n \in 1..Len(devices) :
    DieSaving(s.profile, Rewritten(f, s, devices, n - 1), Loading(s, devices, n), <<"devices", "site">>)

LoadDevices(q) ==
    LET devices == disk[q].devices
        f == disk[session.profile]
    IN /\ up /\ edits < MaxEdits /\ edits' = edits + 1
       /\ devices # Broken
       /\ \/ /\ session' = Loading(session, devices, Len(devices)) /\ up' = TRUE
             /\ disk' = [disk EXCEPT ![session.profile] = Rewritten(f, session, devices, Len(devices))]
          \/ DieLoading(session, f, devices)

(***************************************************************************)
(* The project page.  A cluster is named in a combo box: the first of that *)
(* name is meant, except that move_bms_to_cluster takes the last.          *)
(***************************************************************************)
AddCluster(c) ==
    /\ c \notin Names /\ Len(session.clusters) < MaxClusters
    /\ Commit([session EXCEPT !.clusters = Append(@, [name |-> c, bms |-> {}, pcs |-> {}])], <<"site">>)

RenameCluster(c) == Commit([session EXCEPT !.clusters[session.active].name = c], <<"site">>)

ActivateCluster(c) ==
    c \in Names /\ Commit([session EXCEPT !.active = FirstNamed(c)], <<>>)

Offered == Range(session.pcs) \cup session.clusters[session.active].pcs

MutBindPcs(p, c) ==
    /\ p \in Offered /\ c \in Names
    /\ Commit([session EXCEPT !.clusters[FirstNamed(c)].pcs = @ \cup {p}], <<"site">>)

BoundTo(clusters, p, i) == [Without(clusters, {}, {p}) EXCEPT ![i].pcs = @ \cup {p}]

BindPcs(p, c) ==
    /\ p \in Offered /\ c \in Names
    /\ Commit([session EXCEPT !.clusters = BoundTo(@, p, FirstNamed(c))], <<"site">>)

UnbindPcs(p, c) ==
    /\ p \in Offered /\ c \in Names /\ p \in session.clusters[FirstNamed(c)].pcs
    /\ Commit([session EXCEPT !.clusters[FirstNamed(c)].pcs = @ \ {p}], <<"site">>)

MovedTo(clusters, b, i) == [Without(clusters, {b}, {}) EXCEPT ![i].bms = @ \cup {b}]

MoveBms(b, c) ==
    /\ c \in Names /\ \E i \in DOMAIN session.clusters : b \in session.clusters[i].bms
    /\ Commit([session EXCEPT !.clusters = MovedTo(@, b, LastNamed(c))], <<"site">>)

ProjectPage == \E c \in ClusterNames :
    \/ AddCluster(c) \/ RenameCluster(c) \/ ActivateCluster(c)
    \/ \E p \in Pcs : BindPcs(p, c) \/ UnbindPcs(p, c)
    \/ \E b \in Bms : MoveBms(b, c)

(***************************************************************************)
(* The PCS devices.                                                        *)
(***************************************************************************)
WithPcs(pcs, p) == IF p \in Range(pcs) THEN pcs ELSE Append(pcs, p)

AddPcs(p) == Commit([session EXCEPT !.pcs = WithPcs(@, p), !.current = p], <<"pcs">>)

MutRemovePcs(p) ==
    LET left == RemoveFirst(session.pcs, p)
    IN /\ Len(session.pcs) > 1
       /\ Commit([session EXCEPT !.pcs = left, !.clusters = Without(@, {}, {p}),
                                 !.current = IF @ = p THEN left[1] ELSE @], <<"pcs">>)

RemovePcs(p) ==
    LET left == RemoveFirst(session.pcs, p)
    IN /\ Len(session.pcs) > 1
       /\ Commit([session EXCEPT !.pcs = left, !.clusters = Without(@, {}, {p}),
                                 !.current = IF @ = p THEN left[1] ELSE @], <<"site", "pcs">>)

SelectPcs(p) ==
    p \in Range(session.pcs) /\ Commit([session EXCEPT !.current = p], <<"pcs">>)

(* load_pcs_config takes the first PCS of the file for the current one; a  *)
(* template's list replaces the file before.  reload_pcs_config saves the  *)
(* site after it.                                                          *)
WithLoadedPcs(s, pcs) == [s EXCEPT !.pcs = pcs, !.current = pcs[1]]

ApplyTemplate(pcs) == Commit(WithLoadedPcs(session, pcs), <<"pcs", "site">>)

ReloadPcs == Commit(WithLoadedPcs(session, disk[session.profile].pcs), <<"site">>)

DevicesPages ==
    \/ \E b \in Bms : AddDevice(b) \/ RemoveDevice(b)
    \/ \E q \in Profiles : SaveDevices(q) \/ LoadDevices(q)
    \/ \E p \in Pcs : AddPcs(p) \/ RemovePcs(p) \/ SelectPcs(p)
    \/ \E t \in Templates : ApplyTemplate(t)
    \/ ReloadPcs

(***************************************************************************)
(* auto_load_startup_configs: check the files, take the PCSs from theirs,  *)
(* load the devices over the session's clusters, which saves the site, and *)
(* only then load the site: a name that no device has is dropped.          *)
(***************************************************************************)
Rebuilt(site, devices) == [i \in DOMAIN site |-> [site[i] EXCEPT !.bms = @ \cap Range(devices)]]

AutoLoad(s, f) ==
    LET ensured == Ensured(f)
        devices == IF f.devices = Broken THEN <<>> ELSE f.devices
        common == WithLoadedPcs(s, ensured.pcs)
        loaded == IF f.devices = Broken THEN common ELSE Loading(common, devices, Len(devices))
        after == Rewritten(ensured, common, devices, Len(devices))
    IN \/ /\ session' = [loaded EXCEPT !.clusters = Rebuilt(after.site, loaded.devices), !.active = 1]
          /\ disk' = [disk EXCEPT ![s.profile] = after]
          /\ up' = TRUE
       \/ DieLoading(common, ensured, devices)
       \/ \E x \in {"site", "pcs"} : /\ ensured[x] # f[x] /\ Die
                                     /\ disk' = [disk EXCEPT ![s.profile] = [f EXCEPT ![x] = Broken]]

Start == /\ ~up /\ UNCHANGED edits
         /\ AutoLoad(Fresh(Ensured(disk[DefaultProfile])), disk[DefaultProfile])

Stop == up /\ Die /\ UNCHANGED <<disk, edits>>

LoadProfile(q) ==
    /\ up /\ edits < MaxEdits /\ edits' = edits + 1
    /\ AutoLoad([session EXCEPT !.profile = q], disk[q])

(* The package of a profile r is unpacked over profile q and loaded.       *)
ImportProfile(q, r) ==
    /\ up /\ edits < MaxEdits /\ edits' = edits + 1
    /\ disk[r] # disk[q]
    /\ \/ AutoLoad([session EXCEPT !.profile = q], disk[r])
       \/ \E x \in DOMAIN DefaultFiles, unpacked \in SUBSET DOMAIN DefaultFiles :
            /\ disk' = [disk EXCEPT ![q] = [y \in DOMAIN DefaultFiles |->
                           IF y = x THEN Broken ELSE IF y \in unpacked THEN disk[r][y] ELSE DefaultFiles[y]]]
            /\ Die

SaveProfile(q) == Commit([session EXCEPT !.profile = q], <<"devices", "site", "pcs">>)

Next == \/ Start \/ Stop \/ DevicesPages \/ ProjectPage
        \/ \E q \in Profiles : LoadProfile(q) \/ SaveProfile(q) \/ \E r \in Profiles : ImportProfile(q, r)

Spec == Init /\ [][Next]_vars

-----------------------------------------------------------------------------
(* The session is a site whose active cluster and whose current PCS exist; *)
(* the files hold such data or are unreadable.                             *)
TypeOK == /\ session \in Sessions /\ session.active \in DOMAIN session.clusters
          /\ session.current \in Range(session.pcs)
          /\ disk \in [Profiles -> Files] /\ up \in BOOLEAN /\ edits \in 0..MaxEdits

(* "A PCS should normally belong to one cluster" (site_mixin.py:202): no   *)
(* binding, template, profile, import, restart or crash puts one into two, *)
(* where it would get two shares of power.                                 *)
PcsInOneCluster == \A i, j \in DOMAIN session.clusters :
    i # j => session.clusters[i].pcs \cap session.clusters[j].pcs = {}

(* Every configured BMS is in one cluster, and the clusters have no other: *)
(* a handler leaves no BMS without a cluster and puts none into two, and   *)
(* a start puts all in their place.  The exceptions are a list of devices  *)
(* that is loaded over a site of several clusters, of which only the       *)
(* active one is emptied, and one that cannot be read, which leaves the    *)
(* old devices beside the new site.                                        *)
Misplaced(s) == {b \in Bms : Cardinality({i \in DOMAIN s.clusters : b \in s.clusters[i].bms})
                               # IF b \in Range(s.devices) THEN 1 ELSE 0}
LoadsOver == \E q \in Profiles :
    /\ Len(session.clusters) > 1 \/ disk[q].devices = Broken
    /\ LoadDevices(q) \/ LoadProfile(q) \/ \E r \in Profiles : ImportProfile(r, q)
EveryBmsPlaced == [][up' => \/ Misplaced(session') \subseteq IF up THEN Misplaced(session) ELSE {}
                            \/ LoadsOver]_vars

(* What the operator did is on the disk when the handler returns, in       *)
(* whatever order handlers, loads, crashes and restarts came: the list of  *)
(* PCSs, the clusters and their bindings, and the devices (a list that is  *)
(* loaded empty is not saved, one that was unreadable stays so).           *)
Bindings(clusters) == [i \in DOMAIN clusters |-> <<clusters[i].name, clusters[i].pcs>>]
EditsAreSaved == up =>
    LET f == disk[session.profile]
    IN /\ f.pcs = session.pcs
       /\ Bindings(f.site) = Bindings(session.clusters)
       /\ f.devices \in {session.devices, Broken} \/ session.devices = <<>>

(* A load writes devices.json once for every entry that it reads.  Unless  *)
(* it is interrupted, memory and file end with the list it started from.   *)
LoadKeepsDevices ==
    [][up' /\ (Start \/ \E q \in Profiles : LoadProfile(q)) =>
        LET q == session'.profile
        IN /\ disk'[q].devices = disk[q].devices
           /\ disk[q].devices = Broken \/ session'.devices = disk[q].devices]_vars
=============================================================================
