-------------------------- MODULE MCFaceAuthExecutor --------------------------
(* Instances of FaceAuthExecutor.                                          *)
EXTENDS FaceAuthExecutor, TLC

CONSTANT r1

AllKinds == CallbackKinds \cup PlainKinds
Keys == {"ATTR_CAMERA_STATUS", "ATTR_PIN_SUB_TYPE", "ATTR_REMAIN_TIMES", "ATTR_OTHER"}
MCKeyLists == UNION {[1..n -> Keys] : n \in 0..3}
MCModes == {"PROPERTY_INIT_ALGORITHM", "PROPERTY_MODE_FREEZE", "PROPERTY_MODE_UNFREEZE", "PROPERTY_MODE_GET",
            "VENDOR_COMMAND_BEGIN", "VENDOR_COMMAND_BEGIN + 1"}
===============================================================================
