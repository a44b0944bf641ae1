-------------------------- MODULE TestRunnerProofs ---------------------------
(***************************************************************************)
(* What a build and a test run guarantee in BuildScript and TestRunner,    *)
(* for any kernels, paths, file names and manifests, and any number of     *)
(* changes the developer makes.                                            *)
(*                                                                         *)
(* BInv follows the kernel through the files of the script, and says what  *)
(* cargo may conclude from a run that succeeded: the image is that of the  *)
(* kernel and the manifest as long as the run's files were not written     *)
(* since it began.                                                         *)
(***************************************************************************)
EXTENDS TestRunner, SequenceTheorems, TLAPS

Env == [KERNEL : Paths \cup {Unset}, KERNEL_MANIFEST : BOOLEAN]

AfterArchive == {"manifest", "write", "link"}
AfterWrap == {"archive"} \cup AfterArchive
AfterStrip == {"wrap"} \cup AfterWrap
AfterCheck == {"strip"} \cup AfterStrip
InScript == {"check"} \cup AfterCheck
AfterLink == {"built", "tests", "exited", "hung"}

Typed ==
    /\ kernels \in [Paths -> Binaries \cup {Missing}]
    /\ manifest \in Manifests
    /\ env \in Env
    /\ step \in {"idle"} \cup InScript \cup AfterLink
    /\ DOMAIN stripped = Names /\ DOMAIN bin = Names /\ DOMAIN archive = Names
    /\ cargo \in [fresh : BOOLEAN, env : Env, written : SUBSET (Paths \cup {ManifestFile})]
    /\ edited \in BOOLEAN

(* The manifest as the run, or the run cargo found fresh, has seen it. *)
Unedited == ManifestFile \notin cargo.written

(* The configuration a manifest asks for, before defaults are filled in. *)
Wanted(m) ==
    [key \in Keys |-> IF key \in DOMAIN m.table THEN m.table[key].num ELSE None]

(* A stack size that is given is not taken for one that is not. *)
SizeTold(m) ==
    "kernel-stack-size" \in DOMAIN m.table => m.table["kernel-stack-size"].num # None

SoundConfig(c) ==
    /\ c["kernel-stack-size"] = None \/ (c["kernel-stack-size"] \in Int /\ c["kernel-stack-size"] > 0)
    /\ \A key \in AddressKeys : c[key] = None \/ c[key] % ALIGNMENT = 0
    /\ c = [key \in Keys |-> c[key]]

ScriptInv ==
    /\ step \in InScript => cargo.fresh = FALSE /\ cargo.env = env
    /\ step \in AfterCheck => env.KERNEL \in Paths /\ kernel # Missing
    /\ step \in AfterStrip => stripped[kernel_file_name] = kernel
    /\ step \in AfterWrap => bin[kernel_file_name] = kernel
    /\ step \in AfterArchive => archive[kernel_file_name] = kernel
    /\ step \in InScript \ {"write", "link"} => config = DefaultConfig
    /\ step = "write" =>
          /\ Unedited => config = Wanted(manifest) /\ SizeTold(manifest)
          /\ SoundConfig(config)
    /\ step = "link" => (Unedited => constants = Asked(manifest)) /\ Sound(constants)

FreshInv ==
    cargo.fresh = TRUE =>
        /\ cargo.env.KERNEL \in Paths
        /\ cargo.env.KERNEL \notin cargo.written =>
              /\ kernels[cargo.env.KERNEL] # Missing
              /\ image.kernel = kernels[cargo.env.KERNEL]
        /\ Unedited => image.constants = Asked(manifest)
        /\ Sound(image.constants)

BuiltInv ==
    /\ step # "idle" => edited = TRUE \/ Unedited
    /\ step \in AfterLink =>
          /\ cargo.fresh = TRUE /\ cargo.env = env
          /\ kernel # Missing /\ image.kernel = kernel

BInv == Typed /\ ScriptInv /\ FreshInv /\ BuiltInv

(* Nothing is built at the start. *)
LEMMA InitBInv == BuildInit => BInv
<1> SUFFICES ASSUME BuildInit PROVE BInv
  OBVIOUS
<1>1. step = "idle" /\ cargo = [fresh |-> FALSE, env |-> env, written |-> {}]
  BY DEF BuildInit
<1>2. Typed
  <2>1. /\ kernels \in [Paths -> Binaries \cup {Missing}] /\ manifest \in Manifests
        /\ env \in Env
    BY DEF BuildInit, Env
  <2>2. DOMAIN stripped = Names /\ DOMAIN bin = Names /\ DOMAIN archive = Names
    BY DEF BuildInit
  <2>3. cargo \in [fresh : BOOLEAN, env : Env, written : SUBSET (Paths \cup {ManifestFile})]
    BY <1>1, <2>1
  <2>4. edited \in BOOLEAN
    BY DEF BuildInit
  <2> QED
    BY <1>1, <2>1, <2>2, <2>3, <2>4 DEF Typed
<1>3. ScriptInv
  BY <1>1 DEF ScriptInv, InScript, AfterCheck, AfterStrip, AfterWrap, AfterArchive
<1>4. FreshInv
  BY <1>1 DEF FreshInv
<1>5. BuiltInv
  BY <1>1 DEF BuiltInv, AfterLink
<1> QED
  BY <1>2, <1>3, <1>4, <1>5 DEF BInv

-----------------------------------------------------------------------------
(* The developer. *)

(* A kernel that is compiled is one of the files cargo watches, if it is   *)
(* the one of the run.                                                     *)
LEMMA Compile ==
    ASSUME BInv, NEW path \in Paths, NEW binary \in Binaries \cup {Missing},
           compile(path, binary)
    PROVE  BInv'
<1>1. /\ step = "idle" /\ kernels' = [kernels EXCEPT ![path] = binary]
      /\ cargo' = [cargo EXCEPT !.written = @ \cup {path}]
      /\ UNCHANGED <<name, manifest, env, step, config, stripped, bin, archive, constants,
                     image, edited>>
  BY DEF compile, outDir
<1>2. Typed /\ FreshInv
  BY DEF BInv
<1>3. /\ cargo'.fresh = cargo.fresh /\ cargo'.env = cargo.env
      /\ cargo'.written = cargo.written \cup {path}
      /\ cargo' \in [fresh : BOOLEAN, env : Env, written : SUBSET (Paths \cup {ManifestFile})]
  BY <1>1, <1>2 DEF Typed
<1>4. Typed'
  BY <1>1, <1>2, <1>3 DEF Typed, Names
<1>5. ScriptInv'
  BY <1>1 DEF ScriptInv, InScript, AfterCheck, AfterStrip, AfterWrap, AfterArchive
<1>6. FreshInv'
  BY <1>1, <1>2, <1>3 DEF FreshInv, Typed, Unedited
<1>7. BuiltInv'
  BY <1>1 DEF BuiltInv, AfterLink
<1> QED
  BY <1>4, <1>5, <1>6, <1>7 DEF BInv

(* The environment of the last run is kept by cargo. *)
LEMMA SetEnv == ASSUME BInv, NEW e \in Env, set_env(e) PROVE BInv'
<1>1. /\ step = "idle" /\ env' = e
      /\ UNCHANGED <<name, kernels, manifest, step, config, stripped, bin, archive, constants,
                     cargo, image, edited>>
  BY DEF set_env, outDir
<1>2. Typed'
  BY <1>1 DEF BInv, Typed, Names
<1>3. ScriptInv'
  BY <1>1 DEF ScriptInv, InScript, AfterCheck, AfterStrip, AfterWrap, AfterArchive
<1>4. FreshInv'
  BY <1>1 DEF BInv, FreshInv, Unedited
<1>5. BuiltInv'
  BY <1>1 DEF BuiltInv, AfterLink
<1> QED
  BY <1>2, <1>3, <1>4, <1>5 DEF BInv

(* An edit of the manifest, at any time, is remembered as one since the    *)
(* run began.                                                              *)
LEMMA EditManifest == ASSUME BInv, NEW m \in Manifests, edit_manifest(m) PROVE BInv'
<1>1. /\ manifest' = m /\ edited' = TRUE
      /\ cargo' = [cargo EXCEPT !.written = @ \cup {ManifestFile}]
      /\ UNCHANGED <<name, kernels, env, step, config, stripped, bin, archive, constants, image>>
  BY DEF edit_manifest, outDir
<1>2. /\ cargo'.fresh = cargo.fresh /\ cargo'.env = cargo.env
      /\ cargo'.written = cargo.written \cup {ManifestFile}
      /\ cargo' \in [fresh : BOOLEAN, env : Env, written : SUBSET (Paths \cup {ManifestFile})]
  BY <1>1 DEF BInv, Typed
<1>3. ~ Unedited'
  BY <1>2 DEF Unedited
<1>4. Typed'
  BY <1>1, <1>2 DEF BInv, Typed, Names
<1>5. ScriptInv'
  BY <1>1, <1>2, <1>3 DEF BInv, ScriptInv, kernel, kernel_file_name
<1>6. FreshInv'
  BY <1>1, <1>2, <1>3 DEF BInv, FreshInv
<1>7. BuiltInv'
  BY <1>1, <1>2 DEF BInv, BuiltInv, kernel
<1> QED
  BY <1>4, <1>5, <1>6, <1>7 DEF BInv
-----------------------------------------------------------------------------
(* Cargo and the script. *)

(* Cargo skips the script only if its last run is still good for what the  *)
(* environment names.                                                      *)
LEMMA UpToDate == ASSUME BInv, up_to_date PROVE BInv'
<1>1. /\ step = "idle" /\ step' = "built" /\ edited' = FALSE /\ Fresh
      /\ UNCHANGED <<name, kernels, manifest, env, config, stripped, bin, archive, constants,
                     cargo, image>>
  BY DEF up_to_date, outDir
<1>2. /\ cargo.fresh = TRUE /\ cargo.env = env /\ Unedited
      /\ env.KERNEL \notin cargo.written
  BY <1>1 DEF Fresh, rerun_if_changed, Unedited, BInv, Typed
<1>3. Typed'
  BY <1>1 DEF BInv, Typed, Names, AfterLink
<1>4. ScriptInv'
  BY <1>1 DEF ScriptInv, InScript, AfterCheck, AfterStrip, AfterWrap, AfterArchive
<1>5. FreshInv'
  BY <1>1 DEF BInv, FreshInv, Unedited
<1>6. BuiltInv'
  BY <1>1, <1>2 DEF BInv, FreshInv, BuiltInv, kernel, Unedited
<1> QED
  BY <1>3, <1>4, <1>5, <1>6 DEF BInv

(* A run begins with nothing written and no configuration. *)
LEMMA RunScript == ASSUME BInv, run_script PROVE BInv'
<1>1. /\ step' = "check" /\ config' = DefaultConfig
      /\ cargo' = [fresh |-> FALSE, env |-> env, written |-> {}]
      /\ edited' = FALSE
      /\ UNCHANGED <<name, kernels, manifest, env, stripped, bin, archive, constants, image>>
  BY DEF run_script, outDir
<1>2. Typed'
  <2>1. cargo' \in [fresh : BOOLEAN, env : Env, written : SUBSET (Paths \cup {ManifestFile})]
    BY <1>1 DEF BInv, Typed
  <2> QED
    BY <1>1, <2>1 DEF BInv, Typed, Names, InScript
<1>3. ScriptInv'
  BY <1>1 DEF ScriptInv, InScript, AfterCheck, AfterStrip, AfterWrap, AfterArchive
<1>4. FreshInv'
  BY <1>1 DEF FreshInv
<1>5. BuiltInv'
  BY <1>1 DEF BuiltInv, AfterLink, Unedited
<1> QED
  BY <1>2, <1>3, <1>4, <1>5 DEF BInv

(* A script that fails leaves a run that did not succeed. *)
LEMMA ScriptFails == ASSUME BInv, script_fails PROVE BInv'
<1>1. /\ step' = "idle"
      /\ UNCHANGED <<name, kernels, manifest, env, config, stripped, bin, archive, constants,
                     cargo, image, edited>>
  BY DEF script_fails, outDir
<1>2. Typed'
  BY <1>1 DEF BInv, Typed, Names
<1>3. ScriptInv'
  BY <1>1 DEF ScriptInv, InScript, AfterCheck, AfterStrip, AfterWrap, AfterArchive
<1>4. FreshInv'
  BY <1>1 DEF BInv, FreshInv, Unedited
<1>5. BuiltInv'
  BY <1>1 DEF BuiltInv, AfterLink
<1> QED
  BY <1>2, <1>3, <1>4, <1>5 DEF BInv

(* The steps of the script leave cargo, the sources and the image alone.   *)
LEMMA ScriptStep ==
    ASSUME BInv, step \in InScript, step' \in InScript,
           UNCHANGED <<name, kernels, manifest, env, cargo, image, edited>>,
           DOMAIN stripped' = DOMAIN stripped, DOMAIN bin' = DOMAIN bin,
           DOMAIN archive' = DOMAIN archive, ScriptInv'
    PROVE  BInv'
<1>1. Typed'
  BY DEF BInv, Typed, Names
<1>2. FreshInv'
  BY DEF BInv, FreshInv, Unedited
<1>3. BuiltInv'
  BY DEF BInv, BuiltInv, Unedited, InScript, AfterCheck, AfterStrip, AfterWrap,
         AfterArchive, AfterLink
<1> QED
  BY <1>1, <1>2, <1>3 DEF BInv

(* The kernel is there. *)
LEMMA CheckKernel == ASSUME BInv, check_kernel PROVE BInv'
<1>1. /\ step = "check" /\ step' = "strip" /\ env.KERNEL \in Paths /\ kernel # Missing
      /\ UNCHANGED <<name, kernels, manifest, env, config, stripped, bin, archive, constants,
                     cargo, image, edited>>
  BY DEF check_kernel, outDir, BInv, Typed, Env
<1>2. ScriptInv'
  BY <1>1 DEF BInv, ScriptInv, InScript, AfterCheck, AfterStrip, AfterWrap, AfterArchive,
              kernel
<1> QED
  BY <1>1, <1>2, ScriptStep DEF InScript, AfterCheck

(* The file name of the kernel is a name of the output directory. *)
LEMMA FileName == ASSUME BInv, step \in AfterCheck PROVE kernel_file_name \in Names
  BY DEF BInv, ScriptInv, kernel_file_name, Names

(* The kernel goes from file to file under its name. *)
LEMMA StripDebug == ASSUME BInv, strip_debug PROVE BInv'
<1>1. /\ step = "strip" /\ step' = "wrap"
      /\ stripped' = [stripped EXCEPT ![kernel_file_name] = kernel]
      /\ UNCHANGED <<name, kernels, manifest, env, config, bin, archive, constants, cargo,
                     image, edited>>
  BY DEF strip_debug
<1>2. kernel_file_name \in DOMAIN stripped /\ UNCHANGED <<kernel, kernel_file_name>>
  BY <1>1, FileName DEF AfterCheck, BInv, Typed, kernel, kernel_file_name
<1>3. stripped'[kernel_file_name] = kernel /\ DOMAIN stripped' = DOMAIN stripped
  BY <1>1, <1>2
<1>4. ScriptInv'
  BY <1>1, <1>2, <1>3
  DEF BInv, ScriptInv, InScript, AfterCheck, AfterStrip, AfterWrap, AfterArchive
<1> QED
  BY <1>1, <1>3, <1>4, ScriptStep DEF InScript, AfterCheck, AfterStrip

(* objcopy wraps what was stripped under the name. *)
LEMMA WrapBinary == ASSUME BInv, wrap_binary PROVE BInv'
<1>1. /\ step = "wrap" /\ step' = "archive"
      /\ bin' = [bin EXCEPT ![kernel_file_name] = stripped[kernel_file_name]]
      /\ UNCHANGED <<name, kernels, manifest, env, config, stripped, archive, constants, cargo,
                     image, edited>>
  BY DEF wrap_binary
<1>2. /\ kernel_file_name \in DOMAIN bin /\ UNCHANGED <<kernel, kernel_file_name>>
      /\ stripped[kernel_file_name] = kernel
  BY <1>1, FileName DEF AfterCheck, AfterStrip, BInv, Typed, ScriptInv, kernel, kernel_file_name
<1>3. bin'[kernel_file_name] = kernel /\ DOMAIN bin' = DOMAIN bin
  BY <1>1, <1>2
<1>4. ScriptInv'
  BY <1>1, <1>2, <1>3
  DEF BInv, ScriptInv, InScript, AfterCheck, AfterStrip, AfterWrap, AfterArchive
<1> QED
  BY <1>1, <1>3, <1>4, ScriptStep DEF InScript, AfterCheck, AfterStrip, AfterWrap

(* ar replaces the member of the name. *)
LEMMA CreateArchive == ASSUME BInv, create_archive PROVE BInv'
<1>1. /\ step = "archive" /\ step' = "manifest"
      /\ archive' = [archive EXCEPT ![kernel_file_name] = bin[kernel_file_name]]
      /\ UNCHANGED <<name, kernels, manifest, env, config, stripped, bin, constants, cargo,
                     image, edited>>
  BY DEF create_archive
<1>2. /\ kernel_file_name \in DOMAIN archive /\ UNCHANGED <<kernel, kernel_file_name>>
      /\ bin[kernel_file_name] = kernel
  BY <1>1, FileName
  DEF AfterCheck, AfterStrip, AfterWrap, BInv, Typed, ScriptInv, kernel, kernel_file_name
<1>3. archive'[kernel_file_name] = kernel /\ DOMAIN archive' = DOMAIN archive
  BY <1>1, <1>2
<1>4. ScriptInv'
  BY <1>1, <1>2, <1>3
  DEF BInv, ScriptInv, InScript, AfterCheck, AfterStrip, AfterWrap, AfterArchive
<1> QED
  BY <1>1, <1>3, <1>4, ScriptStep DEF InScript, AfterCheck, AfterStrip, AfterWrap, AfterArchive
(* A value that is accepted is the number of the entry, and fit for its    *)
(* key.                                                                    *)
LEMMA ParseIs ==
    ASSUME NEW key \in Keys, NEW value, parse_value(key, value) # Panic
    PROVE  /\ parse_value(key, value) = value.num
           /\ key \in AddressKeys => value.num % ALIGNMENT = 0
           /\ key = "kernel-stack-size" => value.num > 0
  BY DEF parse_value, parse_aligned_addr, Keys, AddressKeys

(* The manifest is read as it is now. *)
LEMMA ReadManifest == ASSUME BInv, read_manifest PROVE BInv'
<1>1. /\ step = "manifest" /\ step' = "write"
      /\ UNCHANGED <<name, kernels, manifest, env, stripped, bin, archive, constants, cargo,
                     image, edited>>
  BY DEF read_manifest, outDir
<1> DEFINE table == manifest.table
<1>2. /\ config' = [key \in Keys |-> IF key \in DOMAIN table
                                     THEN parse_value(key, table[key]) ELSE config[key]]
      /\ \A key \in DOMAIN table : key \in Keys /\ parse_value(key, table[key]) # Panic
  BY DEF read_manifest, parse_to_config
<1>3. \A key \in DOMAIN table : table[key].num \in Int
  BY ManifestsAssumption DEF BInv, Typed
<1> HIDE DEF table
<1>4. config = DefaultConfig
  BY <1>1 DEF BInv, ScriptInv, InScript, AfterCheck, AfterStrip, AfterWrap, AfterArchive
<1>5. \A key \in Keys : DefaultConfig[key] = None
  BY DEF DefaultConfig
<1>6. \A key \in Keys :
         config'[key] = IF key \in DOMAIN table THEN table[key].num ELSE None
  BY <1>2, <1>4, <1>5, ParseIs
<1>7. config' = [key \in Keys |-> config'[key]]
  BY <1>2
<1>8. config' = Wanted(manifest)
  BY <1>2, <1>6, <1>7 DEF Wanted, table
<1>9. SoundConfig(config')
  <2>1. \A key \in AddressKeys : config'[key] = None \/ config'[key] % ALIGNMENT = 0
    BY <1>2, <1>6, ParseIs DEF Keys
  <2>2. LET c == config'["kernel-stack-size"] IN c = None \/ (c \in Int /\ c > 0)
    BY <1>2, <1>3, <1>6, ParseIs DEF Keys
  <2> QED
    BY <1>7, <2>1, <2>2 DEF SoundConfig
<1>10. SizeTold(manifest)
  <2>1. "kernel-stack-size" \in DOMAIN table => table["kernel-stack-size"].num > 0
    BY <1>2, ParseIs
  <2> QED
    BY <1>3, <2>1 DEF SizeTold, None, table
<1>11. ScriptInv'
  <2>1. UNCHANGED <<kernel, kernel_file_name>>
    BY <1>1 DEF kernel, kernel_file_name
  <2> QED
    BY <1>1, <1>8, <1>9, <1>10, <2>1
    DEF BInv, ScriptInv, InScript, AfterCheck, AfterStrip, AfterWrap, AfterArchive
<1> QED
  BY <1>1, <1>11, ScriptStep DEF InScript, AfterCheck, AfterStrip, AfterWrap, AfterArchive

(* What write_constants makes of a configuration. *)
LEMMA ConstantsAre ==
    ASSUME SoundConfig(config),
           constants' = [config EXCEPT !["kernel-stack-size"] = unwrap_or(@, 512)]
    PROVE  /\ Sound(constants')
           /\ \A m \in Manifests : config = Wanted(m) /\ SizeTold(m) => constants' = Asked(m)
<1>1. DOMAIN config = Keys /\ "kernel-stack-size" \in Keys /\ AddressKeys \subseteq Keys
      /\ "kernel-stack-size" \notin AddressKeys
  BY DEF SoundConfig, Keys, AddressKeys
<1>2. /\ constants'["kernel-stack-size"] = IF config["kernel-stack-size"] = None THEN 512
                                           ELSE config["kernel-stack-size"]
      /\ \A key \in Keys : key # "kernel-stack-size" => constants'[key] = config[key]
      /\ constants' = [key \in Keys |-> constants'[key]]
  <2> DEFINE size == unwrap_or(config["kernel-stack-size"], 512)
  <2>1. size = IF config["kernel-stack-size"] = None THEN 512 ELSE config["kernel-stack-size"]
    BY DEF unwrap_or
  <2> HIDE DEF size
  <2>2. constants' = [config EXCEPT !["kernel-stack-size"] = size]
    BY DEF size
  <2>3. /\ constants'["kernel-stack-size"] = size
        /\ \A key \in Keys : key # "kernel-stack-size" => constants'[key] = config[key]
    BY <1>1, <2>2
  <2>4. constants' = [key \in Keys |-> constants'[key]]
    BY <1>1, <2>2
  <2> QED
    BY <2>1, <2>3, <2>4
<1>3. Sound(constants')
  <2>1. constants'["kernel-stack-size"] > 0
    BY <1>2 DEF SoundConfig
  <2>2. \A key \in AddressKeys : constants'[key] = config[key]
    BY <1>1, <1>2
  <2> QED
    BY <2>1, <2>2 DEF Sound, SoundConfig
<1>4. ASSUME NEW m \in Manifests, config = Wanted(m), SizeTold(m) PROVE constants' = Asked(m)
  <2>1. config["kernel-stack-size"] = IF "kernel-stack-size" \in DOMAIN m.table
                                 THEN m.table["kernel-stack-size"].num ELSE None
    BY <1>1, <1>4 DEF Wanted
  <2>2. constants'["kernel-stack-size"] = Asked(m)["kernel-stack-size"]
    <3>1. CASE "kernel-stack-size" \in DOMAIN m.table
      <4>1. config["kernel-stack-size"] # None
        BY <1>4, <2>1, <3>1 DEF SizeTold
      <4> QED
        BY <1>1, <1>2, <2>1, <3>1, <4>1 DEF Asked
    <3>2. CASE "kernel-stack-size" \notin DOMAIN m.table
      BY <1>1, <1>2, <2>1, <3>2 DEF Asked
    <3> QED
      BY <3>1, <3>2
  <2> QED
    <3>1. \A key \in Keys : constants'[key] = Asked(m)[key]
      BY <1>1, <1>2, <1>4, <2>2 DEF Asked, Wanted
    <3>2. Asked(m) = [key \in Keys |-> Asked(m)[key]]
      BY DEF Asked
    <3> QED
      BY <1>2, <3>1, <3>2
<1> QED
  BY <1>3, <1>4

(* The constants are written from the configuration, defaults filled in. *)
LEMMA WriteConstants == ASSUME BInv, write_constants PROVE BInv'
<1>1. /\ step = "write" /\ step' = "link"
      /\ constants' = [config EXCEPT !["kernel-stack-size"] = unwrap_or(@, 512)]
      /\ UNCHANGED <<name, kernels, manifest, env, config, stripped, bin, archive, cargo, image,
                     edited>>
  BY DEF write_constants
<1>2. /\ Unedited => config = Wanted(manifest) /\ SizeTold(manifest)
      /\ SoundConfig(config) /\ manifest \in Manifests
  BY <1>1 DEF BInv, ScriptInv, Typed
<1>3. Sound(constants') /\ (Unedited => constants' = Asked(manifest))
  BY <1>1, <1>2, ConstantsAre
<1>4. UNCHANGED <<kernel, kernel_file_name, Unedited>>
  BY <1>1 DEF kernel, kernel_file_name, Unedited
<1>5. ScriptInv'
  BY <1>1, <1>3, <1>4
  DEF BInv, ScriptInv, InScript, AfterCheck, AfterStrip, AfterWrap, AfterArchive
<1> QED
  BY <1>1, <1>5, ScriptStep DEF InScript, AfterCheck, AfterStrip, AfterWrap, AfterArchive

(* The image is linked from the files of this run. *)
LEMMA Link == ASSUME BInv, link PROVE BInv'
<1>1. /\ step = "link" /\ step' = "built"
      /\ image' = [kernel |-> archive[kernel_file_name], constants |-> constants]
      /\ cargo' = [cargo EXCEPT !.fresh = TRUE]
      /\ UNCHANGED <<name, kernels, manifest, env, config, stripped, bin, archive, constants,
                     edited>>
  BY DEF link, outDir
<1>2. /\ cargo.env = env /\ env.KERNEL \in Paths /\ kernel # Missing
      /\ archive[kernel_file_name] = kernel
      /\ (Unedited => constants = Asked(manifest)) /\ Sound(constants)
  BY <1>1 DEF BInv, ScriptInv, InScript, AfterCheck, AfterStrip, AfterWrap, AfterArchive
<1>3. /\ cargo'.fresh = TRUE /\ cargo'.env = env /\ cargo'.written = cargo.written
      /\ cargo' \in [fresh : BOOLEAN, env : Env, written : SUBSET (Paths \cup {ManifestFile})]
  BY <1>1, <1>2 DEF BInv, Typed
<1>4. image'.kernel = kernel /\ image'.constants = constants
  BY <1>1, <1>2
<1>5. Typed'
  BY <1>1, <1>3 DEF BInv, Typed, Names, AfterLink
<1>6. ScriptInv'
  BY <1>1 DEF ScriptInv, InScript, AfterCheck, AfterStrip, AfterWrap, AfterArchive
<1>7. FreshInv'
  BY <1>1, <1>2, <1>3, <1>4 DEF FreshInv, Unedited, kernel
<1>8. BuiltInv'
  BY <1>1, <1>2, <1>3, <1>4 DEF BInv, BuiltInv, Unedited, kernel
<1> QED
  BY <1>5, <1>6, <1>7, <1>8 DEF BInv

(* A test run, or its end, leaves the build alone. *)
LEMMA TestStep ==
    ASSUME BInv, unchangedBuild, step' \in AfterLink \cup {"idle"}, step \in AfterLink
    PROVE  BInv'
<1>1. UNCHANGED <<name, kernels, manifest, env, config, stripped, bin, archive, constants,
                  cargo, image, edited>>
  BY DEF unchangedBuild, outDir
<1>2. Typed'
  BY <1>1 DEF BInv, Typed, Names
<1>3. ScriptInv'
  BY <1>1 DEF ScriptInv, InScript, AfterCheck, AfterStrip, AfterWrap, AfterArchive, AfterLink
<1>4. FreshInv'
  BY <1>1 DEF BInv, FreshInv, Unedited
<1>5. BuiltInv'
  BY <1>1 DEF BInv, BuiltInv, AfterLink, kernel, Unedited
<1> QED
  BY <1>2, <1>3, <1>4, <1>5 DEF BInv

(* Every step keeps the invariant. *)
LEMMA StepBInv == BInv /\ [TestNext]_testVars => BInv'
<1> SUFFICES ASSUME BInv, [TestNext]_testVars PROVE BInv'
  OBVIOUS
<1>1. CASE BuildStep
  BY <1>1, UpToDate, RunScript, ScriptFails, CheckKernel, StripDebug, WrapBinary,
     CreateArchive, ReadManifest, WriteConstants, Link DEF BuildStep
<1>2. CASE Develop
  BY <1>2, Compile, SetEnv, EditManifest DEF Develop, Env
<1>3. CASE \/ test_kernel_main \/ run_test \/ test_panic_handler \/ test_loops
           \/ test_runner \/ next_build
  <2>1. unchangedBuild /\ step \in AfterLink /\ step' \in AfterLink \cup {"idle"}
    BY <1>3
    DEF test_kernel_main, run_test, test_panic_handler, test_loops, test_runner, next_build,
        exit_qemu, AfterLink
  <2> QED
    BY <2>1, TestStep
<1>4. CASE UNCHANGED testVars
  <2>1. UNCHANGED <<name, kernels, manifest, env, step, config, stripped, bin, archive,
                    constants, cargo, image, edited>>
    BY <1>4 DEF testVars, buildVars, outDir
  <2>2. UNCHANGED <<kernel, kernel_file_name, Unedited, Names>>
    BY <2>1 DEF kernel, kernel_file_name, Unedited, Names
  <2>3. Typed' /\ FreshInv'
    BY <2>1, <2>2 DEF BInv, Typed, FreshInv
  <2>4. ScriptInv' /\ BuiltInv'
    BY <2>1, <2>2 DEF BInv, ScriptInv, BuiltInv
  <2> QED
    BY <2>3, <2>4 DEF BInv
<1> QED
  BY <1>1, <1>2, <1>3, <1>4 DEF TestNext

(* The invariant holds in every state. *)
THEOREM BuildInductive == TestSpec => []BInv
<1>1. TestInit => BInv
  BY InitBInv DEF TestInit
<1> QED
  BY <1>1, StepBInv, PTL DEF TestSpec

-----------------------------------------------------------------------------
(* A build that succeeds has the kernel KERNEL names, whatever was built,  *)
(* failed or left under the same file name before.                         *)
THEOREM ImageHasKernelHolds == TestSpec => []ImageHasKernel
<1>1. BInv => ImageHasKernel
  BY DEF BInv, BuiltInv, ImageHasKernel, Built, AfterLink, kernel
<1> QED
  BY <1>1, BuildInductive, PTL

(* A build that succeeds has the constants of the manifest, unless it was  *)
(* edited meanwhile, and constants the bootloader can work with in any     *)
(* case.                                                                   *)
THEOREM ImageHasConstantsHolds == TestSpec => []ImageHasConstants
<1>1. BInv => ImageHasConstants
  <2> SUFFICES ASSUME BInv, Built
               PROVE  (edited \/ image.constants = Asked(manifest)) /\ Sound(image.constants)
    BY DEF ImageHasConstants
  <2>1. step \in AfterLink /\ step # "idle"
    BY DEF Built, AfterLink
  <2>2. cargo.fresh = TRUE /\ (edited = TRUE \/ Unedited)
    BY <2>1 DEF BInv, BuiltInv
  <2> QED
    BY <2>2 DEF BInv, FreshInv
<1> QED
  BY <1>1, BuildInductive, PTL
-----------------------------------------------------------------------------
(* The test run. *)

Outcomes == {"returns", "panics", "loops"}

(* The tests that were run returned, and were reported. *)
TInv ==
    /\ device \in BOOLEAN
    /\ step \notin {"tests", "exited", "hung"} => done = 0 /\ serial = <<>>
    /\ step = "tests" =>
          /\ done \in 0 .. Len(tests)
          /\ serial = [i \in 1 .. done |-> "[ok]"]
          /\ \A i \in 1 .. done : tests[i] = "returns"
    /\ StatusIsRight

(* The tests of an image that was built are those of the kernel. *)
LEMMA TestsAre ==
    ASSUME BInv, step \in AfterLink
    PROVE  /\ tests = kernels[env.KERNEL].tests /\ tests \in Seq(Outcomes)
           /\ Len(tests) \in Nat /\ DOMAIN tests = 1 .. Len(tests)
<1>1. env.KERNEL \in Paths /\ kernel # Missing /\ image.kernel = kernel
  BY DEF BInv, BuiltInv, FreshInv
<1>2. kernel \in Binaries
  BY <1>1 DEF BInv, Typed, kernel
<1>3. tests = kernels[env.KERNEL].tests /\ tests \in Seq(Outcomes)
  BY <1>1, <1>2, BinariesAssumption DEF tests, kernel, Outcomes
<1> QED
  BY <1>3, LenProperties

(* Before and outside a test run. *)
LEMMA NoRunKept ==
    ASSUME TInv, UNCHANGED runVars, step' \notin {"tests", "exited", "hung"},
           step \notin {"tests", "exited", "hung"}
    PROVE  TInv'
  BY DEF TInv, runVars, StatusIsRight

(* The manifest may be edited during a test run. *)
LEMMA EditKept ==
    ASSUME TInv, NEW m, edit_manifest(m), UNCHANGED runVars
    PROVE  TInv'
<1>1. UNCHANGED <<device, done, serial, status, step, kernels, env, image>>
  BY DEF edit_manifest, runVars
<1>2. UNCHANGED tests
  BY <1>1 DEF tests
<1> QED
  BY <1>1, <1>2 DEF TInv, StatusIsRight
(* The image is booted: no test has run. *)
LEMMA BootKept == ASSUME BInv, TInv, test_kernel_main PROVE TInv'
<1>1. step = "built" /\ step' = "tests" /\ UNCHANGED <<device, done, serial, status, image>>
  BY DEF test_kernel_main, unchangedBuild
<1>2. done = 0 /\ serial = <<>> /\ device \in BOOLEAN
  BY <1>1 DEF TInv
<1>3. tests' = tests /\ Len(tests) \in Nat
  BY <1>1, TestsAre DEF tests, AfterLink
<1>4. serial' = [i \in 1 .. done' |-> "[ok]"]
  BY <1>1, <1>2
<1>5. StatusIsRight'
  BY <1>1 DEF StatusIsRight
<1> QED
  BY <1>1, <1>2, <1>3, <1>4, <1>5 DEF TInv

(* A list of results grows by one. *)
LEMMA ReportIs ==
    ASSUME NEW n \in Nat
    PROVE  /\ [i \in 1 .. n |-> "[ok]"] \in Seq({"[ok]", "[failed]"})
           /\ Len([i \in 1 .. n |-> "[ok]"]) = n
           /\ Append([i \in 1 .. n |-> "[ok]"], "[ok]") = [i \in 1 .. n + 1 |-> "[ok]"]
           /\ Append([i \in 1 .. n |-> "[ok]"], "[failed]")[n + 1] = "[failed]"
           /\ DOMAIN Append([i \in 1 .. n |-> "[ok]"], "[failed]") = 1 .. n + 1
<1> DEFINE s == [i \in 1 .. n |-> "[ok]"]
<1>1. s \in Seq({"[ok]", "[failed]"})
  OBVIOUS
<1>2. Len(s) = n
  BY <1>1, LenProperties
<1>3. s = [i \in 1 .. n |-> "[ok]"]
  OBVIOUS
<1> HIDE DEF s
<1>4. /\ Len(Append(s, "[ok]")) = n + 1 /\ Append(s, "[ok]") \in Seq({"[ok]", "[failed]"})
      /\ \A i \in 1 .. n : Append(s, "[ok]")[i] = s[i]
      /\ Append(s, "[ok]")[n + 1] = "[ok]"
  BY <1>1, <1>2, AppendProperties
<1>5. DOMAIN Append(s, "[ok]") = 1 .. n + 1
  BY <1>4, LenProperties
<1>6. \A i \in 1 .. n + 1 : Append(s, "[ok]")[i] = "[ok]"
  BY <1>3, <1>4
<1>7. Append(s, "[ok]") = [i \in 1 .. n + 1 |-> Append(s, "[ok]")[i]]
  <2>1. Append(s, "[ok]") \in [1 .. n + 1 -> {"[ok]", "[failed]"}]
    BY <1>4, LenProperties
  <2> QED
    BY <2>1
<1>8. Append(s, "[ok]") = [i \in 1 .. n + 1 |-> "[ok]"]
  BY <1>6, <1>7
<1>9. /\ Len(Append(s, "[failed]")) = n + 1
      /\ Append(s, "[failed]") \in Seq({"[ok]", "[failed]"})
      /\ Append(s, "[failed]")[n + 1] = "[failed]"
  BY <1>1, <1>2, AppendProperties
<1>10. DOMAIN Append(s, "[failed]") = 1 .. n + 1
  BY <1>9, LenProperties
<1> QED
  BY <1>1, <1>2, <1>8, <1>9, <1>10 DEF s

(* A test returns and is reported. *)
LEMMA RunTestKept == ASSUME BInv, TInv, run_test PROVE TInv'
<1>1. /\ step = "tests" /\ step' = "tests" /\ UNCHANGED <<device, image>>
      /\ done < Len(tests) /\ tests[done + 1] = "returns"
      /\ done' = done + 1 /\ serial' = Append(serial, "[ok]")
  BY DEF run_test, unchangedBuild
<1>2. tests' = tests /\ Len(tests) \in Nat
  BY <1>1, TestsAre DEF tests, AfterLink
<1>3. /\ done \in 0 .. Len(tests) /\ serial = [i \in 1 .. done |-> "[ok]"]
      /\ \A i \in 1 .. done : tests[i] = "returns"
      /\ device \in BOOLEAN
  BY <1>1 DEF TInv
<1>4. serial' = [i \in 1 .. done' |-> "[ok]"]
  <2>1. done \in Nat
    BY <1>2, <1>3
  <2> QED
    BY <1>1, <1>3, <2>1, ReportIs
<1>5. \A i \in 1 .. done' : tests[i] = "returns"
  BY <1>1, <1>2, <1>3
<1>6. done' \in 0 .. Len(tests)
  BY <1>1, <1>2, <1>3
<1>7. StatusIsRight'
  BY <1>1 DEF StatusIsRight
<1> QED
  BY <1>1, <1>2, <1>3, <1>4, <1>5, <1>6, <1>7 DEF TInv

(* A test panics: the status is that of Failed, and the report shows it. *)
LEMMA PanicKept == ASSUME BInv, TInv, test_panic_handler PROVE TInv'
<1>1. /\ step = "tests" /\ UNCHANGED <<device, kernels, env, image>>
      /\ done < Len(tests) /\ tests[done + 1] = "panics"
      /\ serial' = Append(serial, "[failed]")
      /\ step' = IF device THEN "exited" ELSE "hung"
      /\ device => status' = 35
  BY DEF test_panic_handler, unchangedBuild, exit_qemu, Failed
<1>2. /\ tests = kernels[env.KERNEL].tests /\ Len(tests) \in Nat
      /\ DOMAIN tests = 1 .. Len(tests)
  BY <1>1, TestsAre DEF AfterLink
<1>3. /\ done \in Nat /\ serial = [i \in 1 .. done |-> "[ok]"] /\ device \in BOOLEAN
      /\ done + 1 \in DOMAIN tests
  <2>1. /\ done \in 0 .. Len(tests) /\ serial = [i \in 1 .. done |-> "[ok]"]
        /\ device \in BOOLEAN
    BY <1>1 DEF TInv
  <2> QED
    BY <1>1, <1>2, <2>1
<1>4. serial'[done + 1] = "[failed]"
  BY <1>1, <1>3, ReportIs
<1>5. serial' # [i \in DOMAIN tests |-> "[ok]"]
  <2>1. [i \in DOMAIN tests |-> "[ok]"][done + 1] = "[ok]"
    BY <1>3
  <2> QED
    BY <1>4, <2>1
<1>6. ~ \A i \in DOMAIN tests : tests[i] = "returns"
  BY <1>1, <1>3
<1>7. kernels'[env'.KERNEL].tests = tests
  BY <1>1, <1>2
<1>8. StatusIsRight'
  <2>1. CASE device
    <3>1. status' = 35
      BY <1>1, <2>1
    <3> QED
      BY <1>5, <1>6, <1>7, <3>1 DEF StatusIsRight
  <2>2. CASE ~ device
    BY <1>1, <2>2 DEF StatusIsRight
  <2> QED
    BY <2>1, <2>2
<1>9. step' \in {"exited", "hung"}
  BY <1>1
<1> QED
  BY <1>1, <1>3, <1>8, <1>9 DEF TInv

(* All tests returned: the status is that of Success. *)
LEMMA EndKept == ASSUME BInv, TInv, test_runner PROVE TInv'
<1>1. /\ step = "tests" /\ UNCHANGED <<device, kernels, env, image, serial>>
      /\ done = Len(tests)
      /\ step' = IF device THEN "exited" ELSE "hung"
      /\ device => status' = 33
  BY DEF test_runner, unchangedBuild, exit_qemu, Success
<1>2. /\ tests = kernels[env.KERNEL].tests /\ Len(tests) \in Nat
      /\ DOMAIN tests = 1 .. Len(tests)
  BY <1>1, TestsAre DEF AfterLink
<1>3. /\ serial' = [i \in DOMAIN tests |-> "[ok]"] /\ device \in BOOLEAN
      /\ \A i \in DOMAIN tests : tests[i] = "returns"
  BY <1>1, <1>2 DEF TInv
<1>4. kernels'[env'.KERNEL].tests = tests
  BY <1>1, <1>2
<1>5. StatusIsRight'
  <2>1. CASE device
    <3>1. status' = 33
      BY <1>1, <2>1
    <3> QED
      BY <1>3, <1>4, <3>1 DEF StatusIsRight
  <2>2. CASE ~ device
    BY <1>1, <2>2 DEF StatusIsRight
  <2> QED
    BY <2>1, <2>2
<1>6. step' \in {"exited", "hung"}
  BY <1>1
<1> QED
  BY <1>1, <1>3, <1>5, <1>6 DEF TInv

(* Every step keeps the invariant. *)
LEMMA StepTInv == BInv /\ TInv /\ [TestNext]_testVars => TInv'
<1> SUFFICES ASSUME BInv, TInv, [TestNext]_testVars PROVE TInv'
  OBVIOUS
<1>1. CASE BuildStep /\ UNCHANGED runVars
  <2>1. /\ step \notin {"tests", "exited", "hung"}
        /\ step' \notin {"tests", "exited", "hung"}
    BY <1>1
    DEF BuildStep, up_to_date, run_script, script_fails, check_kernel, strip_debug,
        wrap_binary, create_archive, read_manifest, write_constants, link
  <2> QED
    BY <1>1, <2>1, NoRunKept
<1>2. CASE Develop /\ UNCHANGED runVars
  <2>1. CASE \E m \in Manifests : edit_manifest(m)
    BY <1>2, <2>1, EditKept
  <2>2. CASE step = "idle" /\ step' = "idle"
    BY <1>2, <2>2, NoRunKept
  <2> QED
    BY <1>2, <2>1, <2>2 DEF Develop, compile, set_env
<1>3. CASE test_loops
  BY <1>3 DEF test_loops, unchangedBuild, TInv, StatusIsRight
<1>4. CASE next_build
  BY <1>4 DEF next_build, unchangedBuild, TInv, StatusIsRight
<1>5. CASE UNCHANGED testVars
  <2>1. UNCHANGED <<device, done, serial, status, step, kernels, env, image>>
    BY <1>5 DEF testVars, buildVars, runVars
  <2>2. UNCHANGED tests
    BY <2>1 DEF tests
  <2> QED
    BY <2>1, <2>2 DEF TInv, StatusIsRight
<1> QED
  BY <1>1, <1>2, <1>3, <1>4, <1>5, BootKept, RunTestKept, PanicKept, EndKept DEF TestNext

(* QEMU's exit status is right for the kernel that KERNEL names: success   *)
(* exactly if all of its tests ran and returned, failure exactly if one    *)
(* panicked, however many tests and builds there were.                     *)
THEOREM StatusIsRightHolds == TestSpec => []StatusIsRight
<1>1. TestInit => BInv /\ TInv
  <2> SUFFICES ASSUME TestInit PROVE BInv /\ TInv
    OBVIOUS
  <2>1. step = "idle" /\ done = 0 /\ serial = <<>> /\ device \in BOOLEAN
    BY DEF TestInit, BuildInit
  <2> QED
    BY <2>1, InitBInv DEF TestInit, TInv, StatusIsRight
<1>2. (BInv /\ TInv) /\ [TestNext]_testVars => (BInv /\ TInv)'
  BY StepBInv, StepTInv
<1>3. TInv => StatusIsRight
  BY DEF TInv
<1> QED
  BY <1>1, <1>2, <1>3, PTL DEF TestSpec
=============================================================================
