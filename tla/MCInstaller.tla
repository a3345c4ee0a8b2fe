----------------------------- MODULE MCInstaller -----------------------------
(* Values for the constants of Installer. *)
EXTENDS Installer

MCFilesOf == [d \in Drivers |-> IF IsQuibble(d) THEN {"quibble.efi", "grub.efi"}
                                                ELSE {"btrfs.sys", "btrfs.inf"}]

MCSettings == {[key |-> "Shell", value |-> "explorer", type |-> "REG_SZ"],
               [key |-> "Shell", value |-> "other", type |-> "REG_SZ"],
               [key |-> "AllowTelemetry", value |-> "0", type |-> "REG_DWORD"]}
=============================================================================
