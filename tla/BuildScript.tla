---------------------------- MODULE BuildScript ----------------------------
(***************************************************************************)
(* The build script of the bootloader (src/bootloader/build.rs), which     *)
(* turns the kernel's executable into an object the bootloader links, and  *)
(* the kernel's manifest into constants, and tells cargo when to run it    *)
(* again.                                                                  *)
(*                                                                         *)
(* The script's steps interleave with edits of the manifest.  Kernels are  *)
(* compiled, and the environment set, between builds: bootimage does it    *)
(* before it calls cargo.  Cargo is external: it runs the script unless    *)
(* the last run succeeded, the variables the script names have not changed *)
(* and no file it names was written since that run began.                  *)
(***************************************************************************)
EXTENDS Integers

CONSTANTS
    Paths,          \* where kernels may be
    FileNames,      \* the ways to name them: functions on Paths
    Binaries,       \* executables: have they code, and what do their tests do
    Missing,        \* no executable, not a member of Binaries
    Manifests,      \* Cargo.toml files: are they valid, and their table
    Unset,          \* a variable without value, not a member of Paths
    ALIGNMENT,      \* of addresses, 0x1000 in the code
    MaxChanges      \* bound on what the developer does

ASSUME AlignmentAssumption == ALIGNMENT \in Nat \ {0}
ASSUME MaxChangesAssumption == MaxChanges \in Nat
ASSUME MissingAssumption == Missing \notin Binaries
ASSUME UnsetAssumption == Unset \notin Paths
ASSUME ManifestsAssumption ==
    \A m \in Manifests : \A key \in DOMAIN m.table : m.table[key].num \in Int

VARIABLES
    name,        \* path -> file name
    kernels,     \* path -> executable there
    manifest,    \* contents of the kernel's Cargo.toml
    env,         \* KERNEL, and whether KERNEL_MANIFEST is set
    step,        \* of the script
    config,      \* bootloader_config of the run
    stripped,    \* file name -> kernel_stripped-<name>
    bin,         \* file name -> kernel_bin-<name>.o
    archive,     \* file name -> libkernel_bin-<name>.a
    constants,   \* bootloader_config.rs
    cargo,       \* last success: was there one, its env, files written since it began
    image,       \* the bootloader as linked: kernel and constants
    edited,      \* has the manifest been edited since cargo was called?
    changes      \* compilations, settings and edits so far

outDir == <<stripped, bin, archive, constants>>
buildVars == <<name, kernels, manifest, env, step, config, outDir, cargo, image, edited,
               changes>>

Names == {name[p] : p \in Paths}

AddressKeys == {"kernel-stack-address", "physical-memory-offset", "boot-info-address"}
Keys == AddressKeys \cup {"kernel-stack-size"}

None == -1
Panic == -2
NotANumber == -3

(* BootloaderConfig::default. *)
DefaultConfig == [key \in Keys |-> None]
NoConstants == <<>>

ManifestFile == "Cargo.toml"

BuildInit ==
    /\ name \in FileNames
    /\ kernels \in [Paths -> Binaries \cup {Missing}]
    /\ manifest \in Manifests
    /\ env \in [KERNEL : Paths \cup {Unset}, KERNEL_MANIFEST : BOOLEAN]
    /\ step = "idle"
    /\ config = DefaultConfig
    /\ stripped = [n \in Names |-> Missing]
    /\ bin = [n \in Names |-> Missing]
    /\ archive = [n \in Names |-> Missing]
    /\ constants = NoConstants
    /\ cargo = [fresh |-> FALSE, env |-> env, written |-> {}]
    /\ image = [kernel |-> Missing, constants |-> NoConstants]
    /\ edited = FALSE
    /\ changes = 0

-----------------------------------------------------------------------------
(* The developer. *)
Change == changes < MaxChanges /\ changes' = changes + 1

compile(path, binary) ==
    /\ step = "idle"
    /\ Change
    /\ kernels' = [kernels EXCEPT ![path] = binary]
    /\ cargo' = [cargo EXCEPT !.written = @ \cup {path}]
    /\ UNCHANGED <<name, manifest, env, step, config, outDir, image, edited>>

set_env(e) ==
    /\ step = "idle"
    /\ Change
    /\ env' = e
    /\ UNCHANGED <<name, kernels, manifest, step, config, outDir, cargo, image, edited>>

edit_manifest(m) ==
    /\ Change
    /\ manifest' = m
    /\ cargo' = [cargo EXCEPT !.written = @ \cup {ManifestFile}]
    /\ edited' = TRUE
    /\ UNCHANGED <<name, kernels, env, step, config, outDir, image>>

-----------------------------------------------------------------------------
(* Cargo. *)

(* What the script tells cargo to watch, for the environment of its run. *)
rerun_unless_kernel_written(e) == {ManifestFile}
rerun_unless_manifest_written(e) == {e.KERNEL}
rerun_if_changed(e) == {ManifestFile, e.KERNEL}

Fresh ==
    /\ cargo.fresh
    /\ cargo.env = env
    /\ cargo.written \cap rerun_if_changed(cargo.env) = {}

up_to_date ==
    /\ step = "idle"
    /\ Fresh
    /\ step' = "built"
    /\ edited' = FALSE
    /\ UNCHANGED <<name, kernels, manifest, env, config, outDir, cargo, image, changes>>

run_script ==
    /\ step = "idle"
    /\ ~ Fresh
    /\ step' = "check"
    /\ cargo' = [fresh |-> FALSE, env |-> env, written |-> {}]
    /\ config' = DefaultConfig
    /\ edited' = FALSE
    /\ UNCHANGED <<name, kernels, manifest, env, outDir, image, changes>>

-----------------------------------------------------------------------------
(* main of build.rs.  A step that fails ends the script, and the build. *)

kernel == kernels[env.KERNEL]
kernel_file_name == name[env.KERNEL]

script_fails ==
    /\ step \in {"check", "strip", "wrap", "archive", "manifest", "write"}
    /\ step' = "idle"
    /\ UNCHANGED <<name, kernels, manifest, env, config, outDir, cargo, image, edited,
                   changes>>

check_kernel ==
    /\ step = "check"
    /\ env.KERNEL # Unset /\ kernel # Missing /\ kernel.text
    /\ step' = "strip"
    /\ UNCHANGED <<name, kernels, manifest, env, config, outDir, cargo, image, edited,
                   changes>>

strip_debug ==
    /\ step = "strip"
    /\ stripped' = [stripped EXCEPT ![kernel_file_name] = kernel]
    /\ step' = "wrap"
    /\ UNCHANGED <<name, kernels, manifest, env, config, bin, archive, constants, cargo,
                   image, edited, changes>>

wrap_binary ==
    /\ step = "wrap"
    /\ bin' = [bin EXCEPT ![kernel_file_name] = stripped[kernel_file_name]]
    /\ step' = "archive"
    /\ UNCHANGED <<name, kernels, manifest, env, config, stripped, archive, constants,
                   cargo, image, edited, changes>>

(* ar crs replaces the member of that name. *)
create_archive ==
    /\ step = "archive"
    /\ archive' = [archive EXCEPT ![kernel_file_name] = bin[kernel_file_name]]
    /\ step' = "manifest"
    /\ UNCHANGED <<name, kernels, manifest, env, config, stripped, bin, constants, cargo,
                   image, edited, changes>>

parse_unaligned_addr(value) == IF value.num = NotANumber THEN Panic ELSE value.num
parse_aligned_addr(value) ==
    IF value.num = NotANumber \/ value.num % ALIGNMENT # 0 THEN Panic ELSE value.num

(* The entry of the table for a key; map_physical_memory is enabled. *)
parse_value(key, value) ==
    IF key \in AddressKeys /\ value.type = "String" THEN parse_aligned_addr(value)
    ELSE IF key = "kernel-stack-size" /\ value.type = "Integer" /\ value.num > 0 THEN value.num
    ELSE Panic

parse_to_config(table) ==
    [key \in Keys |->
        IF key \in DOMAIN table THEN parse_value(key, table[key]) ELSE config[key]]

read_manifest ==
    /\ step = "manifest"
    /\ env.KERNEL_MANIFEST
    /\ manifest.valid
    /\ \A key \in DOMAIN manifest.table :
          key \in Keys /\ parse_value(key, manifest.table[key]) # Panic
    /\ config' = parse_to_config(manifest.table)
    /\ step' = "write"
    /\ UNCHANGED <<name, kernels, manifest, env, outDir, cargo, image, edited, changes>>

unwrap_or(value, default) == IF value = None THEN default ELSE value

write_constants ==
    /\ step = "write"
    /\ constants' = [config EXCEPT !["kernel-stack-size"] = unwrap_or(@, 512)]
    /\ step' = "link"
    /\ UNCHANGED <<name, kernels, manifest, env, config, stripped, bin, archive, cargo,
                   image, edited, changes>>

(* The script has succeeded; cargo compiles the bootloader and links the   *)
(* library kernel_bin-<name>.                                              *)
link ==
    /\ step = "link"
    /\ image' = [kernel |-> archive[kernel_file_name], constants |-> constants]
    /\ cargo' = [cargo EXCEPT !.fresh = TRUE]
    /\ step' = "built"
    /\ UNCHANGED <<name, kernels, manifest, env, config, outDir, edited, changes>>

BuildStep ==
    \/ up_to_date
    \/ run_script
    \/ script_fails
    \/ check_kernel
    \/ strip_debug
    \/ wrap_binary
    \/ create_archive
    \/ read_manifest
    \/ write_constants
    \/ link

Develop ==
    \/ \E path \in Paths, binary \in Binaries \cup {Missing} : compile(path, binary)
    \/ \E e \in [KERNEL : Paths \cup {Unset}, KERNEL_MANIFEST : BOOLEAN] : set_env(e)
    \/ \E m \in Manifests : edit_manifest(m)

-----------------------------------------------------------------------------
Built == step \in {"built", "tests", "exited", "hung"}

(* A build that succeeds gives an image of the kernel that KERNEL names    *)
(* now: whatever was built, failed half way, or was left in OUT_DIR under  *)
(* the same file name before.                                              *)
ImageHasKernel == Built => kernels[env.KERNEL] # Missing /\ image.kernel = kernels[env.KERNEL]

(* What a manifest asks for. *)
Asked(m) ==
    [key \in Keys |-> IF key \in DOMAIN m.table THEN m.table[key].num
                      ELSE IF key = "kernel-stack-size" THEN 512 ELSE None]

Sound(c) ==
    /\ c["kernel-stack-size"] > 0
    /\ \A key \in AddressKeys : c[key] # None => c[key] % ALIGNMENT = 0

(* The constants compiled into the image are what the manifest asks for,   *)
(* if it was not edited during the build; an edit during the build is not  *)
(* forgotten by the next.  Whenever it was edited, the bootloader is never *)
(* built with an address off a page boundary or a stack without pages.     *)
ImageHasConstants ==
    Built => (edited \/ image.constants = Asked(manifest)) /\ Sound(image.constants)
=============================================================================
