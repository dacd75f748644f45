--------------------------- MODULE PorthVFIODevice --------------------------
(***************************************************************************)
(* include/porth/PorthVFIODevice.hpp: the constructor's chain of system    *)
(* calls, every one of which may fail.                                     *)
(***************************************************************************)
EXTENDS Naturals, Sequences

VARIABLES vfio,   \* descriptors and mappings held
          call    \* calls of the constructor that have succeeded

vfioVars == <<vfio, call>>

VfioInit == vfio = {} /\ call = 0

(* What each call acquires, in order: open the container, check the API    *)
(* version, look up the IOMMU group, open the group, set the container,    *)
(* set the IOMMU, get the device, ask for BAR0 and map it.                 *)
Calls == <<{"container"}, {}, {}, {"group"}, {}, {}, {"device"}, {}, {"bar"}>>

VfioCall ==
  /\ call < Len(Calls)
  /\ call' = call + 1
  /\ vfio' = vfio \cup Calls[call']

(* Faulty variant of VfioClose: the group descriptor is forgotten.         *)
VfioCloseLeaky == vfio' = vfio \cap {"group"} /\ call' = 0

(* ~PorthVFIODevice()                                                      *)
VfioClose == vfio' = {} /\ call' = 0
=============================================================================
