----------------------------- MODULE MountTable -----------------------------
(***************************************************************************)
(* The mounts of a node VM as the node plugin sees and changes them: the   *)
(* lines of /proc/self/mountinfo and the commands mount and umount.  The   *)
(* kernel is outside of the repository; the operators say what it does.    *)
(* Mounts of one path are stacked: a new mount hides the older ones, and   *)
(* mountinfo lists them in the order in which they were made.              *)
(***************************************************************************)
EXTENDS Faults, Sequences

CONSTANTS Paths,    \* mount points
          Tags,     \* virtiofs tags
          Disk      \* the root disk of the VM, which unmounted directories show

ASSUME DiskAssumption == Disk \notin Tags
ASSUME MountFaultAssumption == "mount" \in FaultKinds

VARIABLE mounts     \* the stack of mounts of every path

\* A mount shows a virtiofs share or, when a directory that nothing is mounted
\* on was bind-mounted, that directory of the root disk.
Mounts == [source: Tags \cup {Disk}, readOnly: BOOLEAN]

MountsTypeOK == mounts \in [Paths -> Seq(Mounts)]

Mounted(p) == mounts[p] # <<>>

\* What a process sees under the path: the mount made last.
Top(p) == IF Mounted(p) THEN mounts[p][Len(mounts[p])]
          ELSE [source |-> Disk, readOnly |-> FALSE]

IsVirtiofs(m) == m.source \in Tags

\* The root field: "/" for a whole share, else the path of the directory.
Root(m) == IF IsVirtiofs(m) THEN "/" ELSE "directory"

\* mount --bind source target: the new mount shows what the source shows and
\* takes over its flags; the source need not be a mount point.
BindMount(source, target, ok) ==
    \/ /\ ok
       /\ NoFault
       /\ mounts' = [mounts EXCEPT ![target] = Append(@, Top(source))]
    \/ ~ok /\ Fault("mount") /\ UNCHANGED mounts

\* mount -o remount,bind,ro target: refused where nothing is mounted.
RemountReadOnly(target, ok) ==
    \/ /\ ok
       /\ Mounted(target)
       /\ NoFault
       /\ mounts' = [mounts EXCEPT ![target] =
                        Append(SubSeq(@, 1, Len(@) - 1),
                               [source |-> Top(target).source, readOnly |-> TRUE])]
    \/ ~ok /\ ~Mounted(target) /\ NoFault /\ UNCHANGED mounts
    \/ ~ok /\ Mounted(target) /\ Fault("mount") /\ UNCHANGED mounts

\* umount target: takes the mount made last, and fails when it is busy.
Unmount(target, ok) ==
    \/ /\ ok
       /\ Mounted(target)
       /\ NoFault
       /\ mounts' = [mounts EXCEPT ![target] = SubSeq(@, 1, Len(@) - 1)]
    \/ ~ok /\ ~Mounted(target) /\ NoFault /\ UNCHANGED mounts
    \/ ~ok /\ Mounted(target) /\ Fault("mount") /\ UNCHANGED mounts
=============================================================================
