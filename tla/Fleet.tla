---------------------------------- MODULE Fleet ----------------------------------
(***************************************************************************)
(* What the modules about devices have in common: DevicePipeline,          *)
(* DeviceOwnership and DeviceControl each model other columns of the same  *)
(* rows of Device (src/prisma/schema.prisma).                              *)
(***************************************************************************)
CONSTANTS
    Device,         \* the rows of Device
    None            \* null
==================================================================================
