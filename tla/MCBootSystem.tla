---------------------------- MODULE MCBootSystem ----------------------------
(***************************************************************************)
(* boot.toml as it is; with its services listed backwards; and with a      *)
(* fourth program started before fs, so that fs is process 5 and requests  *)
(* sent to its handle reach it.                                            *)
(***************************************************************************)
EXTENDS BootSystem

Line(k, v) == [k |-> k, v |-> v, list |-> <<>>]

Service(name, deps, policy, probe) ==
  <<Line("section", name), Line("binary", "/boot/" \o name),
    [k |-> "depends_on", v |-> "", list |-> deps],
    Line("restart_policy", policy), Line("health_probe", probe)>>

OneShot(name, deps) ==
  Service(name, deps, "one-shot", "none") \o <<Line("launch", "fs_exec")>>

serial == Service("serial", <<>>, "always", "none")
virtio_blk == Service("virtio_blk", <<"serial">>, "on-failure", "blk_ping")
fs == Service("fs", <<"serial", "virtio_blk">>, "on-failure", "fs_ping")
helloworld == OneShot("helloworld", <<"fs", "syscall_compat">>)
syscall_compat == OneShot("syscall_compat", <<"fs">>)
vmm == Service("vmm", <<"serial">>, "always", "none")

BootToml == serial \o virtio_blk \o fs \o helloworld \o syscall_compat
Backwards == syscall_compat \o helloworld \o fs \o virtio_blk \o serial
WithVmm == serial \o vmm \o virtio_blk \o fs \o syscall_compat

MCBootCfgs == {BootToml, Backwards, WithVmm}
MCPreloaded == {"/boot/serial", "/boot/vmm", "/boot/virtio_blk", "/boot/fs"}
=============================================================================
