---------------------------- MODULE MCPaymentEngine ----------------------------
(* Bounded instance of PaymentEngine.                                      *)
EXTENDS PaymentEngine

MCQuotes == {[asset_amount |-> 5, usdc_amount |-> 3, network_fee_paise |-> 0],
             [asset_amount |-> 4, usdc_amount |-> 3, network_fee_paise |-> 1],
             [asset_amount |-> 5, usdc_amount |-> 0, network_fee_paise |-> 1]}
=============================================================================
