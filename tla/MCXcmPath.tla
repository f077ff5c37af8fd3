------------------------------- MODULE MCXcmPath -------------------------------
(* Constants of the model-checking runs of XcmPath.                        *)
EXTENDS XcmPath

CONSTANTS a, b, foreign, alice, remark, inherent

Weights == [c \in Call |-> IF c = remark THEN 1 ELSE 0]

(* Programs that pay for themselves and act as their chain, as somebody on *)
(* it or as nobody; that bring assets; that do not pay, or not enough.     *)
Attempts ==
    {<<WithdrawAsset(6), BuyExecution(6, Unlimited), Transact("SovereignAccount", 2, remark), DepositAsset(alice)>>,
     <<WithdrawAsset(5), BuyExecution(5, 4), Transact("Native", 1, remark)>>,
     <<WithdrawAsset(3), BuyExecution(5, 4), Transact("Native", 1, remark)>>,
     <<WithdrawAsset(5), BuyExecution(5, 3), Transact("Native", 1, remark)>>,
     <<WithdrawAsset(5), BuyExecution(5, 5), DescendOrigin(alice), Transact("Xcm", 1, remark)>>,
     <<WithdrawAsset(4), BuyExecution(4, 4), ClearOrigin, Transact("SovereignAccount", 0, inherent)>>,
     <<WithdrawAsset(4), ClearOrigin, BuyExecution(4, Unlimited), DepositAsset(alice)>>,
     <<ReserveAssetDeposited(5), ClearOrigin, BuyExecution(5, Unlimited), DepositAsset(alice)>>,
     <<ReceiveTeleportedAsset(5), ClearOrigin, BuyExecution(5, Unlimited), DepositAsset(alice)>>,
     <<DescendOrigin(alice), WithdrawAsset(1), Transact("Native", 1, remark)>>,
     <<Transact("Native", 1, remark)>>}
===============================================================================
